---- MODULE Spec2Model ----
(***************************************************************************)
(* A model of gdscript-docs-maker: the model builder (gdscript_objects.py) *)
(* and the document renderer (convert_to_markdown.py).                     *)
(*                                                                         *)
(* Python strings are TLA+ strings, handled character by character with    *)
(* Len, SubSeq and \o; Python lists are sequences; a Python dict is a      *)
(* function whose DOMAIN is its key set.  A raised exception is a record   *)
(* [error |-> <exception type>, key |-> <the KeyError's key>].             *)
(*                                                                         *)
(* Every operation of the program is a pure function, so the state is the  *)
(* call being made: which function (call), its arguments (args) and what   *)
(* it returned or raised (ret).                                            *)
(***************************************************************************)
EXTENDS Integers, Sequences, FiniteSets, TLC

VARIABLES call, args, ret

vars == <<call, args, ret>>

\* Nothing has been called yet.
Pending == [status |-> "pending"]

(***************************************************************************)
(* Bounds of the model.                                                    *)
(***************************************************************************)
\* Longest description, in lines, given to get_metadata.
MaxLines == 4
\* Most entries in the methods and static_functions lists together.
MaxEntries == 2
\* Most classes in a GDScriptClasses collection.
MaxClasses == 4
\* Most members of a rendered class.
MaxMembers == 2
\* Most functions of a rendered class.
MaxFunctions == 2

(***************************************************************************)
(* Python's str and list operations.                                       *)
(***************************************************************************)
Min(S) == CHOOSE x \in S : \A y \in S : x <= y
Max(S) == CHOOSE x \in S : \A y \in S : x >= y

\* s[i-1], as a string of one character
Char(s, i) == SubSeq(s, i, i)

\* The characters str.strip() removes: every character str.isspace() holds
\* of.  A string of this module holds the characters below U+0100 and the
\* characters of the basic plane whose code point ends in a byte of 80..FF,
\* the backquote excepted;
\* the set below is every whitespace character among them (U+0009..U+000D,
\* U+001C..U+0020, U+0085, U+00A0, U+1680).  The other whitespace characters
\* of Python (U+2000..U+200A, U+2028, U+2029, U+202F, U+205F, U+3000) cannot
\* occur in a string here.
Whitespace ==
  { "\t", "\n", "", "\f", "\r", "", "", "", "", " ", "", " ",
    " " }

\* s.strip(chars)
StripChars(s, chars) ==
  LET I == {i \in 1..Len(s) : Char(s, i) \notin chars}
  IN  IF I = {} THEN "" ELSE SubSeq(s, Min(I), Max(I))

\* s.strip()
Strip(s) == StripChars(s, Whitespace)

\* str.lower() is modelled by its graph.  A string of this module cannot hold
\* the lower-case form of every character it can hold (U+0181 becomes U+0253,
\* which it cannot), so the operators below say whether s.lower() has a given
\* character at a given position instead of building s.lower().  No character
\* a string here can hold changes the length of the string it is in.

\* the characters str.lower() changes
Uppers ==
  { "A", "B", "C", "D", "E", "F", "G", "H", "I", "J", "K", "L",
    "M", "N", "O", "P", "Q", "R", "S", "T", "U", "V", "W", "X",
    "Y", "Z", "À", "Á", "Â", "Ã", "Ä", "Å", "Æ", "Ç", "È", "É",
    "Ê", "Ë", "Ì", "Í", "Î", "Ï", "Ð", "Ñ", "Ò", "Ó", "Ô", "Õ",
    "Ö", "Ø", "Ù", "Ú", "Û", "Ü", "Ý", "Þ", "Ɓ", "Ƃ", "Ƅ", "Ɔ",
    "Ƈ", "Ɖ", "Ɗ", "Ƌ", "Ǝ", "Ə", "Ɛ", "Ƒ", "Ɠ", "Ɣ", "Ɩ", "Ɨ",
    "Ƙ", "Ɯ", "Ɲ", "Ɵ", "Ơ", "Ƣ", "Ƥ", "Ʀ", "Ƨ", "Ʃ", "Ƭ", "Ʈ",
    "Ư", "Ʊ", "Ʋ", "Ƴ", "Ƶ", "Ʒ", "Ƹ", "Ƽ", "Ǆ", "ǅ", "Ǉ", "ǈ",
    "Ǌ", "ǋ", "Ǎ", "Ǐ", "Ǒ", "Ǔ", "Ǖ", "Ǘ", "Ǚ", "Ǜ", "Ǟ", "Ǡ",
    "Ǣ", "Ǥ", "Ǧ", "Ǩ", "Ǫ", "Ǭ", "Ǯ", "Ǳ", "ǲ", "Ǵ", "Ƕ", "Ƿ",
    "Ǹ", "Ǻ", "Ǽ", "Ǿ", "Ά", "Έ", "Ή", "Ί", "Ό", "Ύ", "Ώ", "Α",
    "Β", "Γ", "Δ", "Ε", "Ζ", "Η", "Θ", "Ι", "Κ", "Λ", "Μ", "Ν",
    "Ξ", "Ο", "Π", "Ρ", "Σ", "Τ", "Υ", "Φ", "Χ", "Ψ", "Ω", "Ϊ",
    "Ϋ", "Ϗ", "Ϙ", "Ϛ", "Ϝ", "Ϟ", "Ϡ", "Ϣ", "Ϥ", "Ϧ", "Ϩ", "Ϫ",
    "Ϭ", "Ϯ", "ϴ", "Ϸ", "Ϲ", "Ϻ", "Ͻ", "Ͼ", "Ͽ", "Ҁ", "Ҋ", "Ҍ",
    "Ҏ", "Ґ", "Ғ", "Ҕ", "Җ", "Ҙ", "Қ", "Ҝ", "Ҟ", "Ҡ", "Ң", "Ҥ",
    "Ҧ", "Ҩ", "Ҫ", "Ҭ", "Ү", "Ұ", "Ҳ", "Ҵ", "Ҷ", "Ҹ", "Һ", "Ҽ",
    "Ҿ", "Ӏ", "Ӂ", "Ӄ", "Ӆ", "Ӈ", "Ӊ", "Ӌ", "Ӎ", "Ӑ", "Ӓ", "Ӕ",
    "Ӗ", "Ә", "Ӛ", "Ӝ", "Ӟ", "Ӡ", "Ӣ", "Ӥ", "Ӧ", "Ө", "Ӫ", "Ӭ",
    "Ӯ", "Ӱ", "Ӳ", "Ӵ", "Ӷ", "Ӹ", "Ӻ", "Ӽ", "Ӿ", "Ⴀ", "Ⴁ", "Ⴂ",
    "Ⴃ", "Ⴄ", "Ⴅ", "Ⴆ", "Ⴇ", "Ⴈ", "Ⴉ", "Ⴊ", "Ⴋ", "Ⴌ", "Ⴍ", "Ⴎ",
    "Ⴏ", "Ⴐ", "Ⴑ", "Ⴒ", "Ⴓ", "Ⴔ", "Ⴕ", "Ⴖ", "Ⴗ", "Ⴘ", "Ⴙ", "Ⴚ",
    "Ⴛ", "Ⴜ", "Ⴝ", "Ⴞ", "Ⴟ", "Ⴠ", "Ⴡ", "Ⴢ", "Ⴣ", "Ⴤ", "Ⴥ", "Ⴧ",
    "Ⴭ", "Ꭰ", "Ꭱ", "Ꭲ", "Ꭳ", "Ꭴ", "Ꭵ", "Ꭶ", "Ꭷ", "Ꭸ", "Ꭹ", "Ꭺ",
    "Ꭻ", "Ꭼ", "Ꭽ", "Ꭾ", "Ꭿ", "Ꮀ", "Ꮁ", "Ꮂ", "Ꮃ", "Ꮄ", "Ꮅ", "Ꮆ",
    "Ꮇ", "Ꮈ", "Ꮉ", "Ꮊ", "Ꮋ", "Ꮌ", "Ꮍ", "Ꮎ", "Ꮏ", "Ꮐ", "Ꮑ", "Ꮒ",
    "Ꮓ", "Ꮔ", "Ꮕ", "Ꮖ", "Ꮗ", "Ꮘ", "Ꮙ", "Ꮚ", "Ꮛ", "Ꮜ", "Ꮝ", "Ꮞ",
    "Ꮟ", "Ꮠ", "Ꮡ", "Ꮢ", "Ꮣ", "Ꮤ", "Ꮥ", "Ꮦ", "Ꮧ", "Ꮨ", "Ꮩ", "Ꮪ",
    "Ꮫ", "Ꮬ", "Ꮭ", "Ꮮ", "Ꮯ", "Ꮰ", "Ꮱ", "Ꮲ", "Ꮳ", "Ꮴ", "Ꮵ", "Ꮶ",
    "Ꮷ", "Ꮸ", "Ꮹ", "Ꮺ", "Ꮻ", "Ꮼ", "Ꮽ", "Ꮾ", "Ꮿ", "Ᏸ", "Ᏹ", "Ᏺ",
    "Ᏻ", "Ᏼ", "Ᏽ", "Ა", "Ბ", "Გ", "Დ", "Ე", "Ვ", "Ზ", "Თ", "Ი",
    "Კ", "Ლ", "Მ", "Ნ", "Ო", "Პ", "Ჟ", "Რ", "Ს", "Ტ", "Უ", "Ფ",
    "Ქ", "Ღ", "Ყ", "Შ", "Ჩ", "Ც", "Ძ", "Წ", "Ჭ", "Ხ", "Ჯ", "Ჰ",
    "Ჱ", "Ჲ", "Ჳ", "Ჴ", "Ჵ", "Ჶ", "Ჷ", "Ჸ", "Ჹ", "Ჺ", "Ჽ", "Ჾ",
    "Ჿ", "Ẁ", "Ẃ", "Ẅ", "Ẇ", "Ẉ", "Ẋ", "Ẍ", "Ẏ", "Ẑ", "Ẓ", "Ẕ",
    "ẞ", "Ạ", "Ả", "Ấ", "Ầ", "Ẩ", "Ẫ", "Ậ", "Ắ", "Ằ", "Ẳ", "Ẵ",
    "Ặ", "Ẹ", "Ẻ", "Ẽ", "Ế", "Ề", "Ể", "Ễ", "Ệ", "Ỉ", "Ị", "Ọ",
    "Ỏ", "Ố", "Ồ", "Ổ", "Ỗ", "Ộ", "Ớ", "Ờ", "Ở", "Ỡ", "Ợ", "Ụ",
    "Ủ", "Ứ", "Ừ", "Ử", "Ữ", "Ự", "Ỳ", "Ỵ", "Ỷ", "Ỹ", "Ỻ", "Ỽ",
    "Ỿ", "ᾈ", "ᾉ", "ᾊ", "ᾋ", "ᾌ", "ᾍ", "ᾎ", "ᾏ", "ᾘ", "ᾙ", "ᾚ",
    "ᾛ", "ᾜ", "ᾝ", "ᾞ", "ᾟ", "ᾨ", "ᾩ", "ᾪ", "ᾫ", "ᾬ", "ᾭ", "ᾮ",
    "ᾯ", "Ᾰ", "Ᾱ", "Ὰ", "Ά", "ᾼ", "Ὲ", "Έ", "Ὴ", "Ή", "ῌ", "Ῐ",
    "Ῑ", "Ὶ", "Ί", "Ῠ", "Ῡ", "Ὺ", "Ύ", "Ῥ", "Ὸ", "Ό", "Ὼ", "Ώ",
    "ῼ", "Ↄ", "Ⓐ", "Ⓑ", "Ⓒ", "Ⓓ", "Ⓔ", "Ⓕ", "Ⓖ", "Ⓗ", "Ⓘ", "Ⓙ",
    "Ⓚ", "Ⓛ", "Ⓜ", "Ⓝ", "Ⓞ", "Ⓟ", "Ⓠ", "Ⓡ", "Ⓢ", "Ⓣ", "Ⓤ", "Ⓥ",
    "Ⓦ", "Ⓧ", "Ⓨ", "Ⓩ", "Ⲁ", "Ⲃ", "Ⲅ", "Ⲇ", "Ⲉ", "Ⲋ", "Ⲍ", "Ⲏ",
    "Ⲑ", "Ⲓ", "Ⲕ", "Ⲗ", "Ⲙ", "Ⲛ", "Ⲝ", "Ⲟ", "Ⲡ", "Ⲣ", "Ⲥ", "Ⲧ",
    "Ⲩ", "Ⲫ", "Ⲭ", "Ⲯ", "Ⲱ", "Ⲳ", "Ⲵ", "Ⲷ", "Ⲹ", "Ⲻ", "Ⲽ", "Ⲿ",
    "Ⳁ", "Ⳃ", "Ⳅ", "Ⳇ", "Ⳉ", "Ⳋ", "Ⳍ", "Ⳏ", "Ⳑ", "Ⳓ", "Ⳕ", "Ⳗ",
    "Ⳙ", "Ⳛ", "Ⳝ", "Ⳟ", "Ⳡ", "Ⳣ", "Ⳬ", "Ⳮ", "Ⳳ", "Ꚁ", "Ꚃ", "Ꚅ",
    "Ꚇ", "Ꚉ", "Ꚋ", "Ꚍ", "Ꚏ", "Ꚑ", "Ꚓ", "Ꚕ", "Ꚗ", "Ꚙ", "Ꚛ", "Ꞁ",
    "Ꞃ", "Ꞅ", "Ꞇ", "Ꞌ", "Ɥ", "Ꞑ", "Ꞓ", "Ꞗ", "Ꞙ", "Ꞛ", "Ꞝ", "Ꞟ",
    "Ꞡ", "Ꞣ", "Ꞥ", "Ꞧ", "Ꞩ", "Ɦ", "Ɜ", "Ɡ", "Ɬ", "Ɪ", "Ʞ", "Ʇ",
    "Ʝ", "Ꭓ", "Ꞵ", "Ꞷ", "Ꞹ", "Ꞻ", "Ꞽ", "Ꞿ", "Ꟁ", "Ꟃ", "Ꞔ", "Ʂ",
    "Ᶎ", "Ꟈ", "Ꟊ", "Ꟑ", "Ꟗ", "Ꟙ", "Ꟶ" }

\* The characters of Uppers whose lower-case form a string of this module can
\* hold and, at the same position, that form.
UppersWithin ==
  "ABCDEFGHIJKLMNOPQRSTUVWXYZÀÁÂÃÄÅÆÇÈÉÊËÌÍÎÏÐÑÒÓÔÕÖØÙÚÛÜÝÞƂƄƇƋ"
  \o "ƎƑƘƠƢƤƦƧƩƬƮƯƱƲƳƵƷƸƼǄǅǇǈǊǋǍǏǑǓǕǗǙǛǞǠǢǤǦǨǪǬǮǱǲǴǶǷǸǺǼǾΆΈΉΊΌΎΏΑΒ"
  \o "ΓΔΕΖΗΘΙΚΛΜΝΞΟΠΡΣΤΥΦΧΨΩΪΫϏϘϚϜϞϠϢϤϦϨϪϬϮϴϷϹϺҀҊҌҎҐҒҔҖҘҚҜҞҠҢҤҦҨҪҬ"
  \o "ҮҰҲҴҶҸҺҼҾӀӁӃӅӇӉӋӍӐӒӔӖӘӚӜӞӠӢӤӦӨӪӬӮӰӲӴӶӸӺӼӾᎰᎱᎲᎳᎴᎵᎶᎷᎸᎹᎺᎻᎼᎽᎾᎿᏀᏁᏂ"
  \o "ᏃᏄᏅᏆᏇᏈᏉᏊᏋᏌᏍᏎᏏᏐᏑᏒᏓᏔᏕᏖᏗᏘᏙᏚᏛᏜᏝᏞᏟᏠᏡᏢᏣᏤᏥᏦᏧᏨᏩᏪᏫᏬᏭᏮᏯᏰᏱᏲᏳᏴᏵᲐᲑᲒᲓᲔᲕᲖᲗᲘ"
  \o "ᲙᲚᲛᲜᲝᲞᲟᲠᲡᲢᲣᲤᲥᲦᲧᲨᲩᲪᲫᲬᲭᲮᲯᲰᲱᲲᲳᲴᲵᲶᲷᲸᲹᲺᲽᲾᲿẀẂẄẆẈẊẌẎẐẒẔẞẠẢẤẦẨẪẬẮẰẲẴ"
  \o "ẶẸẺẼẾỀỂỄỆỈỊỌỎỐỒỔỖỘỚỜỞỠỢỤỦỨỪỬỮỰỲỴỶỸỺỼỾᾈᾉᾊᾋᾌᾍᾎᾏᾘᾙᾚᾛᾜᾝᾞᾟᾨᾩᾪᾫᾬᾭᾮ"
  \o "ᾯᾸᾹᾼῌῘῙῨῩῬῼↃⒶⒷⒸⒹⒺⒻⒼⒽⒾⒿⓀⓁⓂⓃⓄⓅⓆⓇⓈⓉⓊⓋⓌⓍⓎⓏⲀⲂⲄⲆⲈⲊⲌⲎⲐⲒⲔⲖⲘⲚⲜⲞⲠⲢⲤⲦⲨⲪ"
  \o "ⲬⲮⲰⲲⲴⲶⲸⲺⲼⲾⳀⳂⳄⳆⳈⳊⳌⳎⳐⳒⳔⳖⳘⳚⳜⳞⳠⳢⳫⳭⳲꚀꚂꚄꚆꚈꚊꚌꚎꚐꚒꚔꚖꚘꚚꞀꞂꞄꞆꞋꞐꞒꞖꞘꞚꞜꞞꞠꞢꞤ"
  \o "ꞦꞨꞰꞱꞲꞴꞶꞸꞺꞼꞾꟀꟂꟄꟅꟆꟇꟉꟐꟖꟘꟵ"

LowersWithin ==
  "abcdefghijklmnopqrstuvwxyzàáâãäåæçèéêëìíîïðñòóôõöøùúûüýþƃƅƈƌ"
  \o "ǝƒƙơƣƥʀƨʃƭʈưʊʋƴƶʒƹƽǆǆǉǉǌǌǎǐǒǔǖǘǚǜǟǡǣǥǧǩǫǭǯǳǳǵƕƿǹǻǽǿάέήίόύώαβ"
  \o "γδεζηθικλμνξοπρστυφχψωϊϋϗϙϛϝϟϡϣϥϧϩϫϭϯθϸϲϻҁҋҍҏґғҕҗҙқҝҟҡңҥҧҩҫҭ"
  \o "үұҳҵҷҹһҽҿӏӂӄӆӈӊӌӎӑӓӕӗәӛӝӟӡӣӥӧөӫӭӯӱӳӵӷӹӻӽӿꮀꮁꮂꮃꮄꮅꮆꮇꮈꮉꮊꮋꮌꮍꮎꮏꮐꮑꮒ"
  \o "ꮓꮔꮕꮖꮗꮘꮙꮚꮛꮜꮝꮞꮟꮠꮡꮢꮣꮤꮥꮦꮧꮨꮩꮪꮫꮬꮭꮮꮯꮰꮱꮲꮳꮴꮵꮶꮷꮸꮹꮺꮻꮼꮽꮾꮿᏸᏹᏺᏻᏼᏽაბგდევზთი"
  \o "კლმნოპჟრსტუფქღყშჩცძწჭხჯჰჱჲჳჴჵჶჷჸჹჺჽჾჿẁẃẅẇẉẋẍẏẑẓẕßạảấầẩẫậắằẳẵ"
  \o "ặẹẻẽếềểễệỉịọỏốồổỗộớờởỡợụủứừửữựỳỵỷỹỻỽỿᾀᾁᾂᾃᾄᾅᾆᾇᾐᾑᾒᾓᾔᾕᾖᾗᾠᾡᾢᾣᾤᾥᾦ"
  \o "ᾧᾰᾱᾳῃῐῑῠῡῥῳↄⓐⓑⓒⓓⓔⓕⓖⓗⓘⓙⓚⓛⓜⓝⓞⓟⓠⓡⓢⓣⓤⓥⓦⓧⓨⓩⲁⲃⲅⲇⲉⲋⲍⲏⲑⲓⲕⲗⲙⲛⲝⲟⲡⲣⲥⲧⲩⲫ"
  \o "ⲭⲯⲱⲳⲵⲷⲹⲻⲽⲿⳁⳃⳅⳇⳉⳋⳍⳏⳑⳓⳕⳗⳙⳛⳝⳟⳡⳣⳬⳮⳳꚁꚃꚅꚇꚉꚋꚍꚏꚑꚓꚕꚗꚙꚛꞁꞃꞅꞇꞌꞑꞓꞗꞙꞛꞝꞟꞡꞣꞥ"
  \o "ꞧꞩʞʇʝꞵꞷꞹꞻꞽꞿꟁꟃꞔʂᶎꟈꟊꟑꟗꟙꟶ"

\* c.lower() == d, c and d one character each
LowersTo(c, d) ==
  IF c \notin Uppers THEN d = c
  ELSE \E i \in 1..Len(UppersWithin) :
         Char(UppersWithin, i) = c /\ Char(LowersWithin, i) = d

\* the cased characters: the lower-case, upper-case and title-case letters
Cased ==
  { "A", "B", "C", "D", "E", "F", "G", "H", "I", "J", "K", "L",
    "M", "N", "O", "P", "Q", "R", "S", "T", "U", "V", "W", "X",
    "Y", "Z", "a", "b", "c", "d", "e", "f", "g", "h", "i", "j",
    "k", "l", "m", "n", "o", "p", "q", "r", "s", "t", "u", "v",
    "w", "x", "y", "z", "ª", "µ", "º", "À", "Á", "Â", "Ã", "Ä",
    "Å", "Æ", "Ç", "È", "É", "Ê", "Ë", "Ì", "Í", "Î", "Ï", "Ð",
    "Ñ", "Ò", "Ó", "Ô", "Õ", "Ö", "Ø", "Ù", "Ú", "Û", "Ü", "Ý",
    "Þ", "ß", "à", "á", "â", "ã", "ä", "å", "æ", "ç", "è", "é",
    "ê", "ë", "ì", "í", "î", "ï", "ð", "ñ", "ò", "ó", "ô", "õ",
    "ö", "ø", "ù", "ú", "û", "ü", "ý", "þ", "ÿ", "ƀ", "Ɓ", "Ƃ",
    "ƃ", "Ƅ", "ƅ", "Ɔ", "Ƈ", "ƈ", "Ɖ", "Ɗ", "Ƌ", "ƌ", "ƍ", "Ǝ",
    "Ə", "Ɛ", "Ƒ", "ƒ", "Ɠ", "Ɣ", "ƕ", "Ɩ", "Ɨ", "Ƙ", "ƙ", "ƚ",
    "ƛ", "Ɯ", "Ɲ", "ƞ", "Ɵ", "Ơ", "ơ", "Ƣ", "ƣ", "Ƥ", "ƥ", "Ʀ",
    "Ƨ", "ƨ", "Ʃ", "ƪ", "ƫ", "Ƭ", "ƭ", "Ʈ", "Ư", "ư", "Ʊ", "Ʋ",
    "Ƴ", "ƴ", "Ƶ", "ƶ", "Ʒ", "Ƹ", "ƹ", "ƺ", "Ƽ", "ƽ", "ƾ", "ƿ",
    "Ǆ", "ǅ", "ǆ", "Ǉ", "ǈ", "ǉ", "Ǌ", "ǋ", "ǌ", "Ǎ", "ǎ", "Ǐ",
    "ǐ", "Ǒ", "ǒ", "Ǔ", "ǔ", "Ǖ", "ǖ", "Ǘ", "ǘ", "Ǚ", "ǚ", "Ǜ",
    "ǜ", "ǝ", "Ǟ", "ǟ", "Ǡ", "ǡ", "Ǣ", "ǣ", "Ǥ", "ǥ", "Ǧ", "ǧ",
    "Ǩ", "ǩ", "Ǫ", "ǫ", "Ǭ", "ǭ", "Ǯ", "ǯ", "ǰ", "Ǳ", "ǲ", "ǳ",
    "Ǵ", "ǵ", "Ƕ", "Ƿ", "Ǹ", "ǹ", "Ǻ", "ǻ", "Ǽ", "ǽ", "Ǿ", "ǿ",
    "ʀ", "ʁ", "ʂ", "ʃ", "ʄ", "ʅ", "ʆ", "ʇ", "ʈ", "ʉ", "ʊ", "ʋ",
    "ʌ", "ʍ", "ʎ", "ʏ", "ʐ", "ʑ", "ʒ", "ʓ", "ʕ", "ʖ", "ʗ", "ʘ",
    "ʙ", "ʚ", "ʛ", "ʜ", "ʝ", "ʞ", "ʟ", "ʠ", "ʡ", "ʢ", "ʣ", "ʤ",
    "ʥ", "ʦ", "ʧ", "ʨ", "ʩ", "ʪ", "ʫ", "ʬ", "ʭ", "ʮ", "ʯ", "ʰ",
    "ʱ", "ʲ", "ʳ", "ʴ", "ʵ", "ʶ", "ʷ", "ʸ", "ˀ", "ˁ", "ˠ", "ˡ",
    "ˢ", "ˣ", "ˤ", "Ά", "Έ", "Ή", "Ί", "Ό", "Ύ", "Ώ", "ΐ", "Α",
    "Β", "Γ", "Δ", "Ε", "Ζ", "Η", "Θ", "Ι", "Κ", "Λ", "Μ", "Ν",
    "Ξ", "Ο", "Π", "Ρ", "Σ", "Τ", "Υ", "Φ", "Χ", "Ψ", "Ω", "Ϊ",
    "Ϋ", "ά", "έ", "ή", "ί", "ΰ", "α", "β", "γ", "δ", "ε", "ζ",
    "η", "θ", "ι", "κ", "λ", "μ", "ν", "ξ", "ο", "π", "ρ", "ς",
    "σ", "τ", "υ", "φ", "χ", "ψ", "ω", "ϊ", "ϋ", "ό", "ύ", "ώ",
    "Ϗ", "ϐ", "ϑ", "ϒ", "ϓ", "ϔ", "ϕ", "ϖ", "ϗ", "Ϙ", "ϙ", "Ϛ",
    "ϛ", "Ϝ", "ϝ", "Ϟ", "ϟ", "Ϡ", "ϡ", "Ϣ", "ϣ", "Ϥ", "ϥ", "Ϧ",
    "ϧ", "Ϩ", "ϩ", "Ϫ", "ϫ", "Ϭ", "ϭ", "Ϯ", "ϯ", "ϰ", "ϱ", "ϲ",
    "ϳ", "ϴ", "ϵ", "Ϸ", "ϸ", "Ϲ", "Ϻ", "ϻ", "ϼ", "Ͻ", "Ͼ", "Ͽ",
    "Ҁ", "ҁ", "Ҋ", "ҋ", "Ҍ", "ҍ", "Ҏ", "ҏ", "Ґ", "ґ", "Ғ", "ғ",
    "Ҕ", "ҕ", "Җ", "җ", "Ҙ", "ҙ", "Қ", "қ", "Ҝ", "ҝ", "Ҟ", "ҟ",
    "Ҡ", "ҡ", "Ң", "ң", "Ҥ", "ҥ", "Ҧ", "ҧ", "Ҩ", "ҩ", "Ҫ", "ҫ",
    "Ҭ", "ҭ", "Ү", "ү", "Ұ", "ұ", "Ҳ", "ҳ", "Ҵ", "ҵ", "Ҷ", "ҷ",
    "Ҹ", "ҹ", "Һ", "һ", "Ҽ", "ҽ", "Ҿ", "ҿ", "Ӏ", "Ӂ", "ӂ", "Ӄ",
    "ӄ", "Ӆ", "ӆ", "Ӈ", "ӈ", "Ӊ", "ӊ", "Ӌ", "ӌ", "Ӎ", "ӎ", "ӏ",
    "Ӑ", "ӑ", "Ӓ", "ӓ", "Ӕ", "ӕ", "Ӗ", "ӗ", "Ә", "ә", "Ӛ", "ӛ",
    "Ӝ", "ӝ", "Ӟ", "ӟ", "Ӡ", "ӡ", "Ӣ", "ӣ", "Ӥ", "ӥ", "Ӧ", "ӧ",
    "Ө", "ө", "Ӫ", "ӫ", "Ӭ", "ӭ", "Ӯ", "ӯ", "Ӱ", "ӱ", "Ӳ", "ӳ",
    "Ӵ", "ӵ", "Ӷ", "ӷ", "Ӹ", "ӹ", "Ӻ", "ӻ", "Ӽ", "ӽ", "Ӿ", "ӿ",
    "ր", "ց", "ւ", "փ", "ք", "օ", "ֆ", "և", "ֈ", "Ⴀ", "Ⴁ", "Ⴂ",
    "Ⴃ", "Ⴄ", "Ⴅ", "Ⴆ", "Ⴇ", "Ⴈ", "Ⴉ", "Ⴊ", "Ⴋ", "Ⴌ", "Ⴍ", "Ⴎ",
    "Ⴏ", "Ⴐ", "Ⴑ", "Ⴒ", "Ⴓ", "Ⴔ", "Ⴕ", "Ⴖ", "Ⴗ", "Ⴘ", "Ⴙ", "Ⴚ",
    "Ⴛ", "Ⴜ", "Ⴝ", "Ⴞ", "Ⴟ", "Ⴠ", "Ⴡ", "Ⴢ", "Ⴣ", "Ⴤ", "Ⴥ", "Ⴧ",
    "Ⴭ", "ა", "ბ", "გ", "დ", "ე", "ვ", "ზ", "თ", "ი", "კ", "ლ",
    "მ", "ნ", "ო", "პ", "ჟ", "რ", "ს", "ტ", "უ", "ფ", "ქ", "ღ",
    "ყ", "შ", "ჩ", "ც", "ძ", "წ", "ჭ", "ხ", "ჯ", "ჰ", "ჱ", "ჲ",
    "ჳ", "ჴ", "ჵ", "ჶ", "ჷ", "ჸ", "ჹ", "ჺ", "ჽ", "ჾ", "ჿ", "Ꭰ",
    "Ꭱ", "Ꭲ", "Ꭳ", "Ꭴ", "Ꭵ", "Ꭶ", "Ꭷ", "Ꭸ", "Ꭹ", "Ꭺ", "Ꭻ", "Ꭼ",
    "Ꭽ", "Ꭾ", "Ꭿ", "Ꮀ", "Ꮁ", "Ꮂ", "Ꮃ", "Ꮄ", "Ꮅ", "Ꮆ", "Ꮇ", "Ꮈ",
    "Ꮉ", "Ꮊ", "Ꮋ", "Ꮌ", "Ꮍ", "Ꮎ", "Ꮏ", "Ꮐ", "Ꮑ", "Ꮒ", "Ꮓ", "Ꮔ",
    "Ꮕ", "Ꮖ", "Ꮗ", "Ꮘ", "Ꮙ", "Ꮚ", "Ꮛ", "Ꮜ", "Ꮝ", "Ꮞ", "Ꮟ", "Ꮠ",
    "Ꮡ", "Ꮢ", "Ꮣ", "Ꮤ", "Ꮥ", "Ꮦ", "Ꮧ", "Ꮨ", "Ꮩ", "Ꮪ", "Ꮫ", "Ꮬ",
    "Ꮭ", "Ꮮ", "Ꮯ", "Ꮰ", "Ꮱ", "Ꮲ", "Ꮳ", "Ꮴ", "Ꮵ", "Ꮶ", "Ꮷ", "Ꮸ",
    "Ꮹ", "Ꮺ", "Ꮻ", "Ꮼ", "Ꮽ", "Ꮾ", "Ꮿ", "Ᏸ", "Ᏹ", "Ᏺ", "Ᏻ", "Ᏼ",
    "Ᏽ", "ᏸ", "ᏹ", "ᏺ", "ᏻ", "ᏼ", "ᏽ", "ᲀ", "ᲁ", "ᲂ", "ᲃ", "ᲄ",
    "ᲅ", "ᲆ", "ᲇ", "ᲈ", "Ა", "Ბ", "Გ", "Დ", "Ე", "Ვ", "Ზ", "Თ",
    "Ი", "Კ", "Ლ", "Მ", "Ნ", "Ო", "Პ", "Ჟ", "Რ", "Ს", "Ტ", "Უ",
    "Ფ", "Ქ", "Ღ", "Ყ", "Შ", "Ჩ", "Ც", "Ძ", "Წ", "Ჭ", "Ხ", "Ჯ",
    "Ჰ", "Ჱ", "Ჲ", "Ჳ", "Ჴ", "Ჵ", "Ჶ", "Ჷ", "Ჸ", "Ჹ", "Ჺ", "Ჽ",
    "Ჾ", "Ჿ", "ᶀ", "ᶁ", "ᶂ", "ᶃ", "ᶄ", "ᶅ", "ᶆ", "ᶇ", "ᶈ", "ᶉ",
    "ᶊ", "ᶋ", "ᶌ", "ᶍ", "ᶎ", "ᶏ", "ᶐ", "ᶑ", "ᶒ", "ᶓ", "ᶔ", "ᶕ",
    "ᶖ", "ᶗ", "ᶘ", "ᶙ", "ᶚ", "ᶛ", "ᶜ", "ᶝ", "ᶞ", "ᶟ", "ᶠ", "ᶡ",
    "ᶢ", "ᶣ", "ᶤ", "ᶥ", "ᶦ", "ᶧ", "ᶨ", "ᶩ", "ᶪ", "ᶫ", "ᶬ", "ᶭ",
    "ᶮ", "ᶯ", "ᶰ", "ᶱ", "ᶲ", "ᶳ", "ᶴ", "ᶵ", "ᶶ", "ᶷ", "ᶸ", "ᶹ",
    "ᶺ", "ᶻ", "ᶼ", "ᶽ", "ᶾ", "ᶿ", "Ẁ", "ẁ", "Ẃ", "ẃ", "Ẅ", "ẅ",
    "Ẇ", "ẇ", "Ẉ", "ẉ", "Ẋ", "ẋ", "Ẍ", "ẍ", "Ẏ", "ẏ", "Ẑ", "ẑ",
    "Ẓ", "ẓ", "Ẕ", "ẕ", "ẖ", "ẗ", "ẘ", "ẙ", "ẚ", "ẛ", "ẜ", "ẝ",
    "ẞ", "ẟ", "Ạ", "ạ", "Ả", "ả", "Ấ", "ấ", "Ầ", "ầ", "Ẩ", "ẩ",
    "Ẫ", "ẫ", "Ậ", "ậ", "Ắ", "ắ", "Ằ", "ằ", "Ẳ", "ẳ", "Ẵ", "ẵ",
    "Ặ", "ặ", "Ẹ", "ẹ", "Ẻ", "ẻ", "Ẽ", "ẽ", "Ế", "ế", "Ề", "ề",
    "Ể", "ể", "Ễ", "ễ", "Ệ", "ệ", "Ỉ", "ỉ", "Ị", "ị", "Ọ", "ọ",
    "Ỏ", "ỏ", "Ố", "ố", "Ồ", "ồ", "Ổ", "ổ", "Ỗ", "ỗ", "Ộ", "ộ",
    "Ớ", "ớ", "Ờ", "ờ", "Ở", "ở", "Ỡ", "ỡ", "Ợ", "ợ", "Ụ", "ụ",
    "Ủ", "ủ", "Ứ", "ứ", "Ừ", "ừ", "Ử", "ử", "Ữ", "ữ", "Ự", "ự",
    "Ỳ", "ỳ", "Ỵ", "ỵ", "Ỷ", "ỷ", "Ỹ", "ỹ", "Ỻ", "ỻ", "Ỽ", "ỽ",
    "Ỿ", "ỿ", "ᾀ", "ᾁ", "ᾂ", "ᾃ", "ᾄ", "ᾅ", "ᾆ", "ᾇ", "ᾈ", "ᾉ",
    "ᾊ", "ᾋ", "ᾌ", "ᾍ", "ᾎ", "ᾏ", "ᾐ", "ᾑ", "ᾒ", "ᾓ", "ᾔ", "ᾕ",
    "ᾖ", "ᾗ", "ᾘ", "ᾙ", "ᾚ", "ᾛ", "ᾜ", "ᾝ", "ᾞ", "ᾟ", "ᾠ", "ᾡ",
    "ᾢ", "ᾣ", "ᾤ", "ᾥ", "ᾦ", "ᾧ", "ᾨ", "ᾩ", "ᾪ", "ᾫ", "ᾬ", "ᾭ",
    "ᾮ", "ᾯ", "ᾰ", "ᾱ", "ᾲ", "ᾳ", "ᾴ", "ᾶ", "ᾷ", "Ᾰ", "Ᾱ", "Ὰ",
    "Ά", "ᾼ", "ι", "ῂ", "ῃ", "ῄ", "ῆ", "ῇ", "Ὲ", "Έ", "Ὴ", "Ή",
    "ῌ", "ῐ", "ῑ", "ῒ", "ΐ", "ῖ", "ῗ", "Ῐ", "Ῑ", "Ὶ", "Ί", "ῠ",
    "ῡ", "ῢ", "ΰ", "ῤ", "ῥ", "ῦ", "ῧ", "Ῠ", "Ῡ", "Ὺ", "Ύ", "Ῥ",
    "ῲ", "ῳ", "ῴ", "ῶ", "ῷ", "Ὸ", "Ό", "Ὼ", "Ώ", "ῼ", "ₐ", "ₑ",
    "ₒ", "ₓ", "ₔ", "ₕ", "ₖ", "ₗ", "ₘ", "ₙ", "ₚ", "ₛ", "ₜ", "Ↄ",
    "ↄ", "Ⓐ", "Ⓑ", "Ⓒ", "Ⓓ", "Ⓔ", "Ⓕ", "Ⓖ", "Ⓗ", "Ⓘ", "Ⓙ", "Ⓚ",
    "Ⓛ", "Ⓜ", "Ⓝ", "Ⓞ", "Ⓟ", "Ⓠ", "Ⓡ", "Ⓢ", "Ⓣ", "Ⓤ", "Ⓥ", "Ⓦ",
    "Ⓧ", "Ⓨ", "Ⓩ", "ⓐ", "ⓑ", "ⓒ", "ⓓ", "ⓔ", "ⓕ", "ⓖ", "ⓗ", "ⓘ",
    "ⓙ", "ⓚ", "ⓛ", "ⓜ", "ⓝ", "ⓞ", "ⓟ", "ⓠ", "ⓡ", "ⓢ", "ⓣ", "ⓤ",
    "ⓥ", "ⓦ", "ⓧ", "ⓨ", "ⓩ", "Ⲁ", "ⲁ", "Ⲃ", "ⲃ", "Ⲅ", "ⲅ", "Ⲇ",
    "ⲇ", "Ⲉ", "ⲉ", "Ⲋ", "ⲋ", "Ⲍ", "ⲍ", "Ⲏ", "ⲏ", "Ⲑ", "ⲑ", "Ⲓ",
    "ⲓ", "Ⲕ", "ⲕ", "Ⲗ", "ⲗ", "Ⲙ", "ⲙ", "Ⲛ", "ⲛ", "Ⲝ", "ⲝ", "Ⲟ",
    "ⲟ", "Ⲡ", "ⲡ", "Ⲣ", "ⲣ", "Ⲥ", "ⲥ", "Ⲧ", "ⲧ", "Ⲩ", "ⲩ", "Ⲫ",
    "ⲫ", "Ⲭ", "ⲭ", "Ⲯ", "ⲯ", "Ⲱ", "ⲱ", "Ⲳ", "ⲳ", "Ⲵ", "ⲵ", "Ⲷ",
    "ⲷ", "Ⲹ", "ⲹ", "Ⲻ", "ⲻ", "Ⲽ", "ⲽ", "Ⲿ", "ⲿ", "Ⳁ", "ⳁ", "Ⳃ",
    "ⳃ", "Ⳅ", "ⳅ", "Ⳇ", "ⳇ", "Ⳉ", "ⳉ", "Ⳋ", "ⳋ", "Ⳍ", "ⳍ", "Ⳏ",
    "ⳏ", "Ⳑ", "ⳑ", "Ⳓ", "ⳓ", "Ⳕ", "ⳕ", "Ⳗ", "ⳗ", "Ⳙ", "ⳙ", "Ⳛ",
    "ⳛ", "Ⳝ", "ⳝ", "Ⳟ", "ⳟ", "Ⳡ", "ⳡ", "Ⳣ", "ⳣ", "ⳤ", "Ⳬ", "ⳬ",
    "Ⳮ", "ⳮ", "Ⳳ", "ⳳ", "Ꚁ", "ꚁ", "Ꚃ", "ꚃ", "Ꚅ", "ꚅ", "Ꚇ", "ꚇ",
    "Ꚉ", "ꚉ", "Ꚋ", "ꚋ", "Ꚍ", "ꚍ", "Ꚏ", "ꚏ", "Ꚑ", "ꚑ", "Ꚓ", "ꚓ",
    "Ꚕ", "ꚕ", "Ꚗ", "ꚗ", "Ꚙ", "ꚙ", "Ꚛ", "ꚛ", "ꚜ", "ꚝ", "Ꞁ", "ꞁ",
    "Ꞃ", "ꞃ", "Ꞅ", "ꞅ", "Ꞇ", "ꞇ", "Ꞌ", "ꞌ", "Ɥ", "ꞎ", "Ꞑ", "ꞑ",
    "Ꞓ", "ꞓ", "ꞔ", "ꞕ", "Ꞗ", "ꞗ", "Ꞙ", "ꞙ", "Ꞛ", "ꞛ", "Ꞝ", "ꞝ",
    "Ꞟ", "ꞟ", "Ꞡ", "ꞡ", "Ꞣ", "ꞣ", "Ꞥ", "ꞥ", "Ꞧ", "ꞧ", "Ꞩ", "ꞩ",
    "Ɦ", "Ɜ", "Ɡ", "Ɬ", "Ɪ", "ꞯ", "Ʞ", "Ʇ", "Ʝ", "Ꭓ", "Ꞵ", "ꞵ",
    "Ꞷ", "ꞷ", "Ꞹ", "ꞹ", "Ꞻ", "ꞻ", "Ꞽ", "ꞽ", "Ꞿ", "ꞿ", "Ꟁ", "ꟁ",
    "Ꟃ", "ꟃ", "Ꞔ", "Ʂ", "Ᶎ", "Ꟈ", "ꟈ", "Ꟊ", "ꟊ", "Ꟑ", "ꟑ", "ꟓ",
    "ꟕ", "Ꟗ", "ꟗ", "Ꟙ", "ꟙ", "Ꟶ", "ꟶ", "ꟸ", "ꟹ", "ꟺ", "ꮀ", "ꮁ",
    "ꮂ", "ꮃ", "ꮄ", "ꮅ", "ꮆ", "ꮇ", "ꮈ", "ꮉ", "ꮊ", "ꮋ", "ꮌ", "ꮍ",
    "ꮎ", "ꮏ", "ꮐ", "ꮑ", "ꮒ", "ꮓ", "ꮔ", "ꮕ", "ꮖ", "ꮗ", "ꮘ", "ꮙ",
    "ꮚ", "ꮛ", "ꮜ", "ꮝ", "ꮞ", "ꮟ", "ꮠ", "ꮡ", "ꮢ", "ꮣ", "ꮤ", "ꮥ",
    "ꮦ", "ꮧ", "ꮨ", "ꮩ", "ꮪ", "ꮫ", "ꮬ", "ꮭ", "ꮮ", "ꮯ", "ꮰ", "ꮱ",
    "ꮲ", "ꮳ", "ꮴ", "ꮵ", "ꮶ", "ꮷ", "ꮸ", "ꮹ", "ꮺ", "ꮻ", "ꮼ", "ꮽ",
    "ꮾ", "ꮿ" }

\* the case-ignorable characters: marks, modifiers and word-internal
\* punctuation, which str.lower() looks through around a capital sigma
CaseIgnorable ==
  { "'", ".", ":", "^", "¨", "­", "¯", "´", "·", "¸", "ʰ",
    "ʱ", "ʲ", "ʳ", "ʴ", "ʵ", "ʶ", "ʷ", "ʸ", "ʹ", "ʺ", "ʻ", "ʼ",
    "ʽ", "ʾ", "ʿ", "ˀ", "ˁ", "˂", "˃", "˄", "˅", "ˆ", "ˇ", "ˈ",
    "ˉ", "ˊ", "ˋ", "ˌ", "ˍ", "ˎ", "ˏ", "ː", "ˑ", "˒", "˓", "˔",
    "˕", "˖", "˗", "˘", "˙", "˚", "˛", "˜", "˝", "˞", "˟", "ˠ",
    "ˡ", "ˢ", "ˣ", "ˤ", "˥", "˦", "˧", "˨", "˩", "˪", "˫", "ˬ",
    "˭", "ˮ", "˯", "˰", "˱", "˲", "˳", "˴", "˵", "˶", "˷", "˸",
    "˹", "˺", "˻", "˼", "˽", "˾", "˿", "΄", "΅", "·", "҃", "҄",
    "҅", "҆", "҇", "҈", "҉", "֑", "֒", "֓", "֔", "֕", "֖", "֗",
    "֘", "֙", "֚", "֛", "֜", "֝", "֞", "֟", "֠", "֡", "֢", "֣",
    "֤", "֥", "֦", "֧", "֨", "֩", "֪", "֫", "֬", "֭", "֮", "֯",
    "ְ", "ֱ", "ֲ", "ֳ", "ִ", "ֵ", "ֶ", "ַ", "ָ", "ֹ", "ֺ", "ֻ",
    "ּ", "ֽ", "ֿ", "ׁ", "ׂ", "ׄ", "ׅ", "ׇ", "״", "ۖ", "ۗ", "ۘ",
    "ۙ", "ۚ", "ۛ", "ۜ", "۝", "۟", "۠", "ۡ", "ۢ", "ۣ", "ۤ", "ۥ",
    "ۦ", "ۧ", "ۨ", "۪", "۫", "۬", "ۭ", "ަ", "ާ", "ި", "ީ", "ު",
    "ޫ", "ެ", "ޭ", "ޮ", "ޯ", "ް", "߫", "߬", "߭", "߮", "߯", "߰",
    "߱", "߲", "߳", "ߴ", "ߵ", "ߺ", "߽", "࢈", "࢐", "࢑", "࢘", "࢙",
    "࢚", "࢛", "࢜", "࢝", "࢞", "࢟", "ࣉ", "࣊", "࣋", "࣌", "࣍", "࣎",
    "࣏", "࣐", "࣑", "࣒", "࣓", "ࣔ", "ࣕ", "ࣖ", "ࣗ", "ࣘ", "ࣙ", "ࣚ",
    "ࣛ", "ࣜ", "ࣝ", "ࣞ", "ࣟ", "࣠", "࣡", "࣢", "ࣣ", "ࣤ", "ࣥ", "ࣦ",
    "ࣧ", "ࣨ", "ࣩ", "࣪", "࣫", "࣬", "࣭", "࣮", "࣯", "ࣰ", "ࣱ", "ࣲ",
    "ࣳ", "ࣴ", "ࣵ", "ࣶ", "ࣷ", "ࣸ", "ࣹ", "ࣺ", "ࣻ", "ࣼ", "ࣽ", "ࣾ",
    "ࣿ", "ঁ", "়", "ু", "ূ", "ৃ", "ৄ", "্", "ৢ", "ৣ", "৾", "ઁ",
    "ં", "઼", "ુ", "ૂ", "ૃ", "ૄ", "ૅ", "ે", "ૈ", "્", "ૢ", "ૣ",
    "ૺ", "ૻ", "ૼ", "૽", "૾", "૿", "ஂ", "ீ", "்", "ಁ", "಼", "ಿ",
    "ೆ", "ೌ", "್", "ೢ", "ೣ", "ඁ", "්", "ි", "ී", "ු", "ූ", "ັ",
    "ິ", "ີ", "ຶ", "ື", "ຸ", "ູ", "຺", "ົ", "ຼ", "ໆ", "່", "້",
    "໊", "໋", "໌", "ໍ", "ྀ", "ཱྀ", "ྂ", "ྃ", "྄", "྆", "྇", "ྍ",
    "ྎ", "ྏ", "ྐ", "ྑ", "ྒ", "ྒྷ", "ྔ", "ྕ", "ྖ", "ྗ", "ྙ", "ྚ",
    "ྛ", "ྜ", "ྜྷ", "ྞ", "ྟ", "ྠ", "ྡ", "ྡྷ", "ྣ", "ྤ", "ྥ", "ྦ",
    "ྦྷ", "ྨ", "ྩ", "ྪ", "ྫ", "ྫྷ", "ྭ", "ྮ", "ྯ", "ྰ", "ྱ", "ྲ",
    "ླ", "ྴ", "ྵ", "ྶ", "ྷ", "ྸ", "ྐྵ", "ྺ", "ྻ", "ྼ", "࿆", "ႂ",
    "ႅ", "ႆ", "ႍ", "ႝ", "ჼ", "឴", "឵", "ិ", "ី", "ឹ", "ឺ", "ុ",
    "ូ", "ួ", "ំ", "៉", "៊", "់", "៌", "៍", "៎", "៏", "័", "៑",
    "្", "៓", "ៗ", "៝", "ᢅ", "ᢆ", "ᢩ", "ᪧ", "᪰", "᪱", "᪲", "᪳",
    "᪴", "᪵", "᪶", "᪷", "᪸", "᪹", "᪺", "᪻", "᪼", "᪽", "᪾", "ᪿ",
    "ᫀ", "᫁", "᫂", "᫃", "᫄", "᫅", "᫆", "᫇", "᫈", "᫉", "᫊", "᫋",
    "ᫌ", "ᫍ", "ᫎ", "ᮀ", "ᮁ", "ᮢ", "ᮣ", "ᮤ", "ᮥ", "ᮨ", "ᮩ", "᮫",
    "ᮬ", "ᮭ", "᯦", "ᯨ", "ᯩ", "ᯭ", "ᯯ", "ᯰ", "ᯱ", "᳐", "᳑", "᳒",
    "᳔", "᳕", "᳖", "᳗", "᳘", "᳙", "᳚", "᳛", "᳜", "᳝", "᳞", "᳟",
    "᳠", "᳢", "᳣", "᳤", "᳥", "᳦", "᳧", "᳨", "᳭", "᳴", "᳸", "᳹",
    "ᶛ", "ᶜ", "ᶝ", "ᶞ", "ᶟ", "ᶠ", "ᶡ", "ᶢ", "ᶣ", "ᶤ", "ᶥ", "ᶦ",
    "ᶧ", "ᶨ", "ᶩ", "ᶪ", "ᶫ", "ᶬ", "ᶭ", "ᶮ", "ᶯ", "ᶰ", "ᶱ", "ᶲ",
    "ᶳ", "ᶴ", "ᶵ", "ᶶ", "ᶷ", "ᶸ", "ᶹ", "ᶺ", "ᶻ", "ᶼ", "ᶽ", "ᶾ",
    "ᶿ", "᷀", "᷁", "᷂", "᷃", "᷄", "᷅", "᷆", "᷇", "᷈", "᷉", "᷊",
    "᷋", "᷌", "᷍", "᷎", "᷏", "᷐", "᷑", "᷒", "ᷓ", "ᷔ", "ᷕ", "ᷖ",
    "ᷗ", "ᷘ", "ᷙ", "ᷚ", "ᷛ", "ᷜ", "ᷝ", "ᷞ", "ᷟ", "ᷠ", "ᷡ", "ᷢ",
    "ᷣ", "ᷤ", "ᷥ", "ᷦ", "ᷧ", "ᷨ", "ᷩ", "ᷪ", "ᷫ", "ᷬ", "ᷭ", "ᷮ",
    "ᷯ", "ᷰ", "ᷱ", "ᷲ", "ᷳ", "ᷴ", "᷵", "᷶", "᷷", "᷸", "᷹", "᷺",
    "᷻", "᷼", "᷽", "᷾", "᷿", "᾽", "᾿", "῀", "῁", "῍", "῎", "῏",
    "῝", "῞", "῟", "῭", "΅", "`", "´", "῾", "ₐ", "ₑ", "ₒ", "ₓ",
    "ₔ", "ₕ", "ₖ", "ₗ", "ₘ", "ₙ", "ₚ", "ₛ", "ₜ", "⃐", "⃑", "⃒",
    "⃓", "⃔", "⃕", "⃖", "⃗", "⃘", "⃙", "⃚", "⃛", "⃜", "⃝", "⃞",
    "⃟", "⃠", "⃡", "⃢", "⃣", "⃤", "⃥", "⃦", "⃧", "⃨", "⃩", "⃪",
    "⃫", "⃬", "⃭", "⃮", "⃯", "⃰", "⳯", "⳰", "⳱", "ⷠ", "ⷡ", "ⷢ",
    "ⷣ", "ⷤ", "ⷥ", "ⷦ", "ⷧ", "ⷨ", "ⷩ", "ⷪ", "ⷫ", "ⷬ", "ⷭ", "ⷮ",
    "ⷯ", "ⷰ", "ⷱ", "ⷲ", "ⷳ", "ⷴ", "ⷵ", "ⷶ", "ⷷ", "ⷸ", "ⷹ", "ⷺ",
    "ⷻ", "ⷼ", "ⷽ", "ⷾ", "ⷿ", "゙", "゚", "゛", "゜", "ゝ", "ゞ", "ー",
    "ヽ", "ヾ", "ꓸ", "ꓹ", "ꓺ", "ꓻ", "ꓼ", "ꓽ", "ꚜ", "ꚝ", "ꚞ", "ꚟ",
    "꛰", "꛱", "ꞈ", "꞉", "꞊", "ꟲ", "ꟳ", "ꟴ", "ꟸ", "ꟹ", "꣄", "ꣅ",
    "꣠", "꣡", "꣢", "꣣", "꣤", "꣥", "꣦", "꣧", "꣨", "꣩", "꣪", "꣫",
    "꣬", "꣭", "꣮", "꣯", "꣰", "꣱", "ꣿ", "ꦀ", "ꦁ", "ꦂ", "꦳", "ꦶ",
    "ꦷ", "ꦸ", "ꦹ", "ꦼ", "ꦽ", "ꧏ", "ꧥ", "ꧦ", "ꪰ", "ꪲ", "ꪳ", "ꪴ",
    "ꪷ", "ꪸ", "ꪾ", "꪿", "꫁", "ꫝ", "ꫬ", "ꫭ", "ꫳ", "ꫴ", "꫶", "ꯥ",
    "ꯨ", "꯭", "﮲", "﮳", "﮴", "﮵", "﮶", "﮷", "﮸", "﮹", "﮺", "﮻",
    "﮼", "﮽", "﮾", "﮿", "﯀", "﯁", "﯂", "﻿", "ﾞ", "ﾟ", "￣", "￹",
    "￺", "￻" }

\* Whether the capital sigma at s[i-1] ends a word: the nearest character
\* before it that is not case-ignorable is cased, and the nearest one after
\* it, if any, is not.
FinalSigma(s, i) ==
  LET before == {j \in 1..(i - 1) : Char(s, j) \notin CaseIgnorable}
      after  == {j \in (i + 1)..Len(s) : Char(s, j) \notin CaseIgnorable}
  IN  /\ before # {}
      /\ Char(s, Max(before)) \in Cased
      /\ after = {} \/ Char(s, Min(after)) \notin Cased

\* s.lower()[i-1] == d, for i in 1..Len(s) and d one character
LowerAt(s, i, d) ==
  IF Char(s, i) = "Σ" /\ FinalSigma(s, i) THEN d = "ς"
  ELSE LowersTo(Char(s, i), d)

\* s.lower().startswith(prefix)
LowerStartsWith(s, prefix) ==
  /\ Len(s) >= Len(prefix)
  /\ \A i \in 1..Len(prefix) : LowerAt(s, i, Char(prefix, i))

\* s.startswith(prefix)
StartsWith(s, prefix) ==
  Len(s) >= Len(prefix) /\ SubSeq(s, 1, Len(prefix)) = prefix

\* s.find(sub): the 0-based index of the first occurrence, or -1
Find(s, sub) ==
  LET I == {i \in 1..(Len(s) - Len(sub) + 1) : SubSeq(s, i, i + Len(sub) - 1) = sub}
  IN  IF I = {} THEN -1 ELSE Min(I) - 1

\* s[k:], k a 0-based index
From(s, k) == SubSeq(s, k + 1, Len(s))

\* s.split(sep)
RECURSIVE Split(_, _)
Split(s, sep) ==
  LET k == Find(s, sep)
  IN  IF k = -1 THEN <<s>>
      ELSE <<SubSeq(s, 1, k)>> \o Split(From(s, k + Len(sep)), sep)

\* sep.join(strs)
RECURSIVE Join(_, _)
Join(strs, sep) ==
  IF strs = <<>> THEN ""
  ELSE IF Len(strs) = 1 THEN strs[1]
  ELSE strs[1] \o sep \o Join(Tail(strs), sep)

\* s.replace(old, new, 1)
ReplaceFirst(s, old, new) ==
  LET k == Find(s, old)
  IN  IF k = -1 THEN s
      ELSE SubSeq(s, 1, k) \o new \o From(s, k + Len(old))

\* x in list
InList(x, list) == \E i \in 1..Len(list) : list[i] = x

\* list(map(f, list)) for f = str.strip
RECURSIVE MapStrip(_)
MapStrip(list) ==
  IF list = <<>> THEN <<>> ELSE <<Strip(Head(list))>> \o MapStrip(Tail(list))

\* every sequence over S of length at most n
SeqsUpTo(S, n) == UNION {[1..k -> S] : k \in 0..n}

(***************************************************************************)
(* gdscript_objects.py                                                     *)
(***************************************************************************)
BUILTIN_VIRTUAL_CALLBACKS ==
  << "_process", "_physics_process", "_input", "_unhandled_input",
     "_gui_input", "_draw", "_get_configuration_warning", "_ready",
     "_enter_tree", "_exit_tree", "_get", "_get_property_list",
     "_notification", "_set", "_to_string", "_clips_input",
     "_get_minimum_size", "_gui_input", "_make_custom_tooltip" >>

TYPE_CONSTRUCTOR == "_init"

\* MetadataStep comparing the key without lower-casing the line.
MetadataStepCaseSensitive(m, line) ==
  LET line_stripped == Strip(line)
  IN  IF StartsWith(line_stripped, "tags:")
        THEN [m EXCEPT !.tags = MapStrip(Split(From(line, Find(line, ":") + 1), ","))]
      ELSE IF StartsWith(line_stripped, "category:")
        THEN [m EXCEPT !.category = Strip(From(line, Find(line, ":") + 1))]
      ELSE [m EXCEPT !.description_trimmed = Append(@, line)]

\* One turn of get_metadata's loop over the lines: m is (tags, category,
\* description_trimmed) so far.
\* line_stripped is stripped.lower(), of which the code asks only how it starts.
MetadataStep(m, line) ==
  LET stripped == Strip(line)
  IN  IF LowerStartsWith(stripped, "tags:")
        THEN [m EXCEPT !.tags = MapStrip(Split(From(line, Find(line, ":") + 1), ","))]
      ELSE IF LowerStartsWith(stripped, "category:")
        THEN [m EXCEPT !.category = Strip(From(line, Find(line, ":") + 1))]
      ELSE [m EXCEPT !.description_trimmed = Append(@, line)]

RECURSIVE MetadataLoop(_, _)
MetadataLoop(m, lines) ==
  IF lines = <<>> THEN m
  ELSE MetadataLoop(MetadataStep(m, Head(lines)), Tail(lines))

\* get_metadata(description): (description, tags, category)
get_metadata(description) ==
  LET m == MetadataLoop([tags |-> <<>>, category |-> "", description_trimmed |-> <<>>],
                        Split(description, "\n"))
  IN  [description |-> Join(m.description_trimmed, "\n"),
       tags |-> m.tags,
       category |-> m.category]

\* A call that returned value v.
Returned(v) == [error |-> "", key |-> "", value |-> v]

\* A call that raised KeyError(k): data[k] with k not a key of data.
KeyError(k) == [error |-> "KeyError", key |-> k, value |-> <<>>]

\* An entry the loop skipped with `continue`.
Skipped == [error |-> "", key |-> "", value |-> <<>>, skip |-> TRUE]

\* An entry the loop appended v for.
Built(v) == [error |-> "", key |-> "", value |-> v, skip |-> FALSE]

Raised(r) == r.error # ""

\* The first of keys, in the order the code reads them, that data lacks;
\* "" when it has them all.
RECURSIVE FirstMissing(_, _)
FirstMissing(data, keys) ==
  IF keys = <<>> THEN ""
  ELSE IF Head(keys) \notin DOMAIN data THEN Head(keys)
  ELSE FirstMissing(data, Tail(keys))

\* _get_signals(data)
RECURSIVE _get_signals(_)
_get_signals(data) ==
  IF data = <<>> THEN Returned(<<>>)
  ELSE
    LET entry == Head(data)
        missing == FirstMissing(entry, <<"signature", "name", "description", "arguments">>)
    IN  IF missing # "" THEN KeyError(missing)
        ELSE
          LET rest == _get_signals(Tail(data))
              signal == [signature |-> entry.signature, name |-> entry.name,
                         description |-> entry.description, arguments |-> entry.arguments]
          IN  IF Raised(rest) THEN rest ELSE Returned(<<signal>> \o rest.value)

\* _get_arguments(data)
RECURSIVE _get_arguments(_)
_get_arguments(data) ==
  IF data = <<>> THEN Returned(<<>>)
  ELSE
    LET entry == Head(data)
        missing == FirstMissing(entry, <<"name", "type">>)
    IN  IF missing # "" THEN KeyError(missing)
        ELSE
          LET rest == _get_arguments(Tail(data))
              argument == [name |-> entry.name, type |-> entry.type]
          IN  IF Raised(rest) THEN rest ELSE Returned(<<argument>> \o rest.value)

\* MakeFunction deriving the kind with `virtual` ahead of static.
MakeFunctionVirtualFirst(entry, is_static, is_virtual, meta) ==
  LET missing == FirstMissing(entry, <<"signature", "return_type", "arguments">>)
  IN  IF missing # "" THEN KeyError(missing)
      ELSE
        LET arguments == _get_arguments(entry.arguments)
            kind == IF InList("virtual", meta.tags) THEN "VIRTUAL"
                    ELSE IF is_static THEN "STATIC"
                    ELSE "METHOD"
        IN  IF Raised(arguments) THEN arguments
            ELSE Built([signature |-> ReplaceFirst(entry.signature, "-> null", "-> void"),
                        kind |-> kind,
                        name |-> entry.name,
                        description |-> StripChars(meta.description, {" ", "\n"}),
                        return_type |-> ReplaceFirst(entry.return_type, "null", "void"),
                        arguments |-> arguments.value,
                        rpc_mode |-> IF "rpc_mode" \in DOMAIN entry THEN entry.rpc_mode ELSE 0,
                        tags |-> meta.tags])

\* The Function(...) construction of _get_functions, for an entry that passed
\* the filters.
MakeFunction(entry, is_static, is_virtual, meta) ==
  LET missing == FirstMissing(entry, <<"signature", "return_type", "arguments">>)
  IN  IF missing # "" THEN KeyError(missing)
      ELSE
        LET arguments == _get_arguments(entry.arguments)
            kind == IF is_static THEN "STATIC"
                    ELSE IF is_virtual THEN "VIRTUAL"
                    ELSE "METHOD"
        IN  IF Raised(arguments) THEN arguments
            ELSE Built([signature |-> ReplaceFirst(entry.signature, "-> null", "-> void"),
                        kind |-> kind,
                        name |-> entry.name,
                        description |-> StripChars(meta.description, {" ", "\n"}),
                        return_type |-> ReplaceFirst(entry.return_type, "null", "void"),
                        arguments |-> arguments.value,
                        rpc_mode |-> IF "rpc_mode" \in DOMAIN entry THEN entry.rpc_mode ELSE 0,
                        tags |-> meta.tags])

\* FunctionOf without the skip of the built-in callbacks.
FunctionOfKeepingBuiltins(entry, is_static) ==
  IF "name" \notin DOMAIN entry THEN KeyError("name")
  ELSE IF entry.name = TYPE_CONSTRUCTOR /\ "arguments" \notin DOMAIN entry
    THEN KeyError("arguments")
  ELSE IF entry.name = TYPE_CONSTRUCTOR /\ entry.arguments = <<>> THEN Skipped
  ELSE IF "description" \notin DOMAIN entry THEN KeyError("description")
  ELSE
    LET meta == get_metadata(entry.description)
        is_virtual == InList("virtual", meta.tags) /\ ~is_static
        is_private == StartsWith(entry.name, "_") /\ ~is_virtual
    IN  IF is_private THEN Skipped
        ELSE MakeFunction(entry, is_static, is_virtual, meta)

\* FunctionOf holding every name that starts with `_` private, virtual or not.
FunctionOfPrivateAlways(entry, is_static) ==
  IF "name" \notin DOMAIN entry THEN KeyError("name")
  ELSE IF InList(entry.name, BUILTIN_VIRTUAL_CALLBACKS) THEN Skipped
  ELSE IF entry.name = TYPE_CONSTRUCTOR /\ "arguments" \notin DOMAIN entry
    THEN KeyError("arguments")
  ELSE IF entry.name = TYPE_CONSTRUCTOR /\ entry.arguments = <<>> THEN Skipped
  ELSE IF "description" \notin DOMAIN entry THEN KeyError("description")
  ELSE
    LET meta == get_metadata(entry.description)
        is_virtual == InList("virtual", meta.tags) /\ ~is_static
        is_private == StartsWith(entry.name, "_")
    IN  IF is_private THEN Skipped
        ELSE MakeFunction(entry, is_static, is_virtual, meta)

\* One turn of _get_functions's loop: the entry is skipped, raises, or
\* yields a Function.
FunctionOf(entry, is_static) ==
  IF "name" \notin DOMAIN entry THEN KeyError("name")
  ELSE IF InList(entry.name, BUILTIN_VIRTUAL_CALLBACKS) THEN Skipped
  ELSE IF entry.name = TYPE_CONSTRUCTOR /\ "arguments" \notin DOMAIN entry
    THEN KeyError("arguments")
  ELSE IF entry.name = TYPE_CONSTRUCTOR /\ entry.arguments = <<>> THEN Skipped
  ELSE IF "description" \notin DOMAIN entry THEN KeyError("description")
  ELSE
    LET meta == get_metadata(entry.description)
        is_virtual == InList("virtual", meta.tags) /\ ~is_static
        is_private == StartsWith(entry.name, "_") /\ ~is_virtual
    IN  IF is_private THEN Skipped
        ELSE MakeFunction(entry, is_static, is_virtual, meta)

\* _get_functions(data, is_static)
RECURSIVE _get_functions(_, _)
_get_functions(data, is_static) ==
  IF data = <<>> THEN Returned(<<>>)
  ELSE
    LET first == FunctionOf(Head(data), is_static)
    IN  IF Raised(first) THEN KeyError(first.key)
        ELSE
          LET rest == _get_functions(Tail(data), is_static)
          IN  IF Raised(rest) THEN rest
              ELSE IF first.skip THEN rest
              ELSE Returned(<<first.value>> \o rest.value)

\* MemberOf reading every field before it skips a private member.
MemberOfReadingFirst(entry) ==
  LET missing == FirstMissing(entry, <<"name", "description", "signature", "data_type",
                                       "default_value", "export", "setter", "getter">>)
  IN  IF missing # "" THEN KeyError(missing)
      ELSE IF StartsWith(entry.name, "_") THEN Skipped
      ELSE
        LET meta == get_metadata(entry.description)
        IN  Built([signature |-> entry.signature,
                   name |-> entry.name,
                   description |-> StripChars(meta.description, {" ", "\n"}),
                   type |-> entry.data_type,
                   default_value |-> entry.default_value,
                   is_exported |-> entry.export,
                   setter |-> entry.setter,
                   getter |-> entry.getter,
                   tags |-> meta.tags])

\* One turn of _get_members's loop.
MemberOf(entry) ==
  IF "name" \notin DOMAIN entry THEN KeyError("name")
  ELSE IF StartsWith(entry.name, "_") THEN Skipped
  ELSE
    LET missing == FirstMissing(entry, <<"description", "signature", "name", "data_type",
                                         "default_value", "export", "setter", "getter">>)
    IN  IF missing # "" THEN KeyError(missing)
        ELSE
          LET meta == get_metadata(entry.description)
          IN  Built([signature |-> entry.signature,
                     name |-> entry.name,
                     description |-> StripChars(meta.description, {" ", "\n"}),
                     type |-> entry.data_type,
                     default_value |-> entry.default_value,
                     is_exported |-> entry.export,
                     setter |-> entry.setter,
                     getter |-> entry.getter,
                     tags |-> meta.tags])

\* _get_members(data)
RECURSIVE _get_members(_)
_get_members(data) ==
  IF data = <<>> THEN Returned(<<>>)
  ELSE
    LET first == MemberOf(Head(data))
    IN  IF Raised(first) THEN KeyError(first.key)
        ELSE
          LET rest == _get_members(Tail(data))
          IN  IF Raised(rest) THEN rest
              ELSE IF first.skip THEN rest
              ELSE Returned(<<first.value>> \o rest.value)

\* Enumeration.from_dict(data)
Enumeration_from_dict(data) ==
  LET missing == FirstMissing(data, <<"signature", "name", "description", "value">>)
  IN  IF missing # "" THEN KeyError(missing)
      ELSE Built([signature |-> data.signature, name |-> data.name,
                  description |-> data.description, values |-> data.value])

\* One turn of the comprehension over data["constants"] in from_dict.
EnumerationOf(entry) ==
  IF "data_type" \notin DOMAIN entry THEN KeyError("data_type")
  ELSE IF entry.data_type # "Dictionary" THEN Skipped
  ELSE Enumeration_from_dict(entry)

\* [Enumeration.from_dict(entry) for entry in constants
\*  if entry["data_type"] == "Dictionary"]
RECURSIVE GetEnumerations(_)
GetEnumerations(constants) ==
  IF constants = <<>> THEN Returned(<<>>)
  ELSE
    LET first == EnumerationOf(Head(constants))
    IN  IF Raised(first) THEN KeyError(first.key)
        ELSE
          LET rest == GetEnumerations(Tail(constants))
          IN  IF Raised(rest) THEN rest
              ELSE IF first.skip THEN rest
              ELSE Returned(<<first.value>> \o rest.value)

\* GDScriptClass.from_dict(data), its arguments evaluated left to right
GDScriptClass_from_dict(data) ==
  LET missing == FirstMissing(data, <<"description", "name", "extends_class", "path", "methods">>)
  IN  IF missing # "" THEN KeyError(missing)
      ELSE
        LET meta == get_metadata(data.description)
            methods == _get_functions(data.methods, FALSE)
        IN  IF Raised(methods) THEN methods
            ELSE IF "static_functions" \notin DOMAIN data THEN KeyError("static_functions")
            ELSE
              LET static_functions == _get_functions(data.static_functions, TRUE)
              IN  IF Raised(static_functions) THEN static_functions
                  ELSE IF "members" \notin DOMAIN data THEN KeyError("members")
                  ELSE
                    LET members == _get_members(data.members)
                    IN  IF Raised(members) THEN members
                        ELSE IF "signals" \notin DOMAIN data THEN KeyError("signals")
                        ELSE
                          LET signals == _get_signals(data.signals)
                          IN  IF Raised(signals) THEN signals
                              ELSE IF "constants" \notin DOMAIN data THEN KeyError("constants")
                              ELSE
                                LET enums == GetEnumerations(data.constants)
                                IN  IF Raised(enums) THEN enums
                                    ELSE Returned(
                                      [name |-> data.name,
                                       extends |-> data.extends_class,
                                       description |-> StripChars(meta.description, {" ", "\n"}),
                                       path |-> data.path,
                                       functions |-> methods.value \o static_functions.value,
                                       members |-> members.value,
                                       signals |-> signals.value,
                                       enums |-> enums.value,
                                       tags |-> meta.tags,
                                       category |-> meta.category])

\* A call that raised TypeError.
TypeError == [error |-> "TypeError", key |-> "", value |-> <<>>]

\* the attributes of a GDScriptClass instance (its __dict__)
ClassAttributes ==
  {"name", "extends", "description", "path", "functions", "members", "signals",
   "enums", "tags", "category"}

\* GDScriptClasses._get_grouped_by(attribute): an empty collection returns [];
\* otherwise sorted(self, get_attribute) passes the key as a second positional
\* argument, which sorted() does not take, and raises TypeError before any
\* group is made.
_get_grouped_by(self, attribute) ==
  IF self = <<>> \/ attribute \notin ClassAttributes THEN Returned(<<>>)
  ELSE TypeError

\* GDScriptClasses.get_grouped_by_category()
get_grouped_by_category(self) == _get_grouped_by(self, "category")

(***************************************************************************)
(* make_markdown.py, hugo.py and command_line.py: the text helpers, the     *)
(* front matter and the dialects the renderer uses, after the description  *)
(* of their output in the specification.                                   *)
(***************************************************************************)
\* OutputFormats: the plain dialect and the augmented (Hugo) one
OutputFormats == {"MARDKOWN", "HUGO"}

RECURSIVE Hashes(_)
Hashes(level) == IF level = 0 THEN "" ELSE "#" \o Hashes(level - 1)

\* make_heading(line, level): the heading line and a blank line
make_heading(line, level) == <<Hashes(level) \o " " \o line, "">>

\* make_bold(text)
make_bold(text) == "**" \o text \o "**"

\* make_comment(text)
make_comment(text) == "<!-- " \o text \o " -->"

\* surround_with_html(text, tag)
surround_with_html(text, tag) == "<" \o tag \o ">" \o text \o "</" \o tag \o ">"

\* make_code_block(text): a literal fenced code block (the fence is written
\* ~~~, the backquote being no character of a TLA+ string)
make_code_block(text) == "~~~gdscript\n" \o text \o "\n~~~"

\* hugo.highlight_code(text): a syntax-highlighting shortcode
highlight_code(text) ==
  "{{< highlight gdscript >}}" \o text \o "{{< / highlight >}}"

\* make_table_row(cells)
make_table_row(cells) == "| " \o Join(cells, " | ") \o " |"

RECURSIVE TableRule(_)
TableRule(n) == IF n = 0 THEN "|" ELSE "| --- " \o TableRule(n - 1)

\* make_table_header(cells): the row of titles and the rule under it
make_table_header(cells) == <<make_table_row(cells), TableRule(Len(cells))>>

\* wrap_in_newlines(lines)
wrap_in_newlines(lines) == <<"">> \o lines \o <<"">>

\* MarkdownSection(title, heading_level, content).as_text(): the titled
\* section, omitted entirely when its content is empty
MarkdownSection_as_text(title, heading_level, content) ==
  IF content = <<>> THEN <<>> ELSE make_heading(title, heading_level) \o content

\* HugoFrontMatter.from_data(gdscript, arguments).as_string_list()
HugoFrontMatter_as_string_list(gdscript) ==
  <<"---", "title: " \o gdscript.name, "description: ", "---", "">>

\* MarkdownDocument(title, content)
MarkdownDocument(title, content) == [title |-> title, content |-> content]

(***************************************************************************)
(* convert_to_markdown.py                                                  *)
(***************************************************************************)
\* Function.summarize()
Function_summarize(function) == <<function.return_type, function.signature>>

\* Member.summarize()
Member_summarize(member) == <<member.type, member.name>>

\* GDScriptClass.extends_as_string()
extends_as_string(gdscript) == Join(gdscript.extends, " < ")

RECURSIVE MemberRows(_)
MemberRows(members) ==
  IF members = <<>> THEN <<>>
  ELSE <<make_table_row(Member_summarize(Head(members)))>> \o MemberRows(Tail(members))

RECURSIVE FunctionRows(_)
FunctionRows(functions) ==
  IF functions = <<>> THEN <<>>
  ELSE <<make_table_row(Function_summarize(Head(functions)))>>
       \o FunctionRows(Tail(functions))

\* summarize_members without the guard on an empty members list.
summarize_members_unguarded(gdscript) ==
  make_table_header(<<"Type", "Name">>) \o MemberRows(gdscript.members)

\* summarize_members(gdscript)
summarize_members(gdscript) ==
  IF gdscript.members = <<>> THEN <<>>
  ELSE make_table_header(<<"Type", "Name">>) \o MemberRows(gdscript.members)

\* summarize_methods(gdscript)
summarize_methods(gdscript) ==
  make_table_header(<<"Type", "Name">>) \o FunctionRows(gdscript.functions)

RECURSIVE SignalBullets(_)
SignalBullets(signals) ==
  IF signals = <<>> THEN <<>>
  ELSE <<"- " \o Head(signals).signature>> \o SignalBullets(Tail(signals))

\* write_signals(signals)
write_signals(signals) ==
  IF signals = <<>> THEN <<>> ELSE wrap_in_newlines(SignalBullets(signals))

\* the code rendering shared by write_enum, write_member and write_function
CodeLines(signature, output_format) ==
  IF output_format = "HUGO" THEN <<highlight_code(signature), "">>
  ELSE <<make_code_block(signature), "">>

\* write_enum(enum), the inner function of write_enums
write_enum(enum, output_format) ==
  make_heading(enum.name, 3) \o CodeLines(enum.signature, output_format)
  \o <<enum.description>>

\* write_enums(enums, output_format)
RECURSIVE write_enums(_, _)
write_enums(enums, output_format) ==
  IF enums = <<>> THEN <<>>
  ELSE write_enum(Head(enums), output_format) \o write_enums(Tail(enums), output_format)

\* write_member(member), the inner function of write_members
write_member(member, output_format) ==
  LET setget ==
        IF member.setter # "" \/ member.setter # ""
          THEN (IF member.setter # "" THEN <<make_table_row(<<"Setter", member.setter>>)>>
                ELSE <<>>)
               \o (IF member.getter # "" THEN <<make_table_row(<<"Getter", member.getter>>)>>
                   ELSE <<>>)
               \o <<"">>
          ELSE <<>>
  IN  make_heading(member.name, 3) \o CodeLines(member.signature, output_format)
      \o setget \o <<member.description>>

\* write_members(members, output_format)
RECURSIVE write_members(_, _)
write_members(members, output_format) ==
  IF members = <<>> THEN <<>>
  ELSE write_member(Head(members), output_format)
       \o write_members(Tail(members), output_format)

\* write_function(function), the inner function of write_functions
write_function(function, output_format) ==
  LET heading ==
        function.name
        \o (IF function.kind = "VIRTUAL" THEN " " \o surround_with_html("(virtual)", "small")
            ELSE "")
        \o (IF function.kind = "STATIC" THEN " " \o surround_with_html("(static)", "small")
            ELSE "")
  IN  make_heading(heading, 3) \o CodeLines(function.signature, output_format)
      \o (IF function.description # "" THEN <<"", function.description>> ELSE <<>>)

\* write_functions(functions, output_format)
RECURSIVE write_functions(_, _)
write_functions(functions, output_format) ==
  IF functions = <<>> THEN <<>>
  ELSE write_function(Head(functions), output_format)
       \o write_functions(Tail(functions), output_format)

\* as_markdown(gdscript, arguments), output_format being arguments.format
as_markdown(gdscript, output_format) ==
  LET name == gdscript.name
              \o (IF InList("abstract", gdscript.tags)
                    THEN " " \o surround_with_html("(abstract)", "small") ELSE "")
      content ==
        (IF output_format = "HUGO" THEN HugoFrontMatter_as_string_list(gdscript) ELSE <<>>)
        \o << make_comment("Auto-generated from JSON by GDScript docs maker. "
                           \o "Do not edit this document directly.") \o "\n" >>
        \o (IF output_format = "MARDKOWN" THEN make_heading(name, 1) ELSE <<>>)
        \o << make_bold("Extends:") \o " " \o extends_as_string(gdscript) >>
        \o MarkdownSection_as_text("Description", 2, <<gdscript.description>>)
        \o MarkdownSection_as_text("Properties", 2, summarize_members(gdscript))
        \o MarkdownSection_as_text("Methods", 2, summarize_methods(gdscript))
        \o MarkdownSection_as_text("Signals", 2, write_signals(gdscript.signals))
        \o MarkdownSection_as_text("Enumerations", 2,
                                   write_enums(gdscript.enums, output_format))
        \o MarkdownSection_as_text("Property Descriptions", 2,
                                   write_members(gdscript.members, output_format))
        \o MarkdownSection_as_text("Method Descriptions", 2,
                                   write_functions(gdscript.functions, output_format))
  IN  Returned(MarkdownDocument(gdscript.name, content))

\* convert_to_markdown(classes, arguments)
RECURSIVE convert_to_markdown(_, _)
convert_to_markdown(classes, output_format) ==
  IF classes = <<>> THEN Returned(<<>>)
  ELSE
    LET first == as_markdown(Head(classes), output_format)
    IN  IF Raised(first) THEN first
        ELSE
          LET rest == convert_to_markdown(Tail(classes), output_format)
          IN  IF Raised(rest) THEN rest ELSE Returned(<<first.value>> \o rest.value)

(***************************************************************************)
(* SpecMeta: get_metadata applied to descriptions of up to MaxLines lines. *)
(***************************************************************************)
\* The strings of a state keep to the characters below U+0080: TLC does not
\* preserve the others in a state it writes to its disk queue and reads back.
\* The whitespace of the lines below is therefore the whitespace below U+0080.
\* `Tags:` lines, each with the tags it declares
TagsLines ==
  { <<"Tags: a, b", <<"a", "b">> >>,
    <<"  tAGS:virtual ,x  ", <<"virtual", "x">> >>,
    <<"\tTAGS:   a,b", <<"a", "b">> >>,
    \* indented by a vertical tab; a file separator, a group separator, a
    \* carriage return and a unit separator around the tags
    <<"Tags:a ,\rb", <<"a", "b">> >> }

\* `Category:` lines, each with the category it declares
CategoryLines ==
  { <<"Category: Foo", "Foo">>,
    <<"  CATEGORY:Foo  ", "Foo">>,
    <<"\tcategory:   Foo Bar ", "Foo Bar">>,
    \* indented by a record separator and a form feed; a file separator and a
    \* group separator around the category
    <<"\fCategory:Foo", "Foo">> }

\* lines that are no metadata
OtherLines == {"", "Does things.", "  a tag: b, c", "Tags : x", "#TAGS: x"}

\* The descriptions of n lines with a Tags line as line t and a Category line
\* as line c (0: no such line) and other lines everywhere else.
LinesWith(n, t, c) ==
  { [i \in 1..n |-> IF i = t THEN tl[1] ELSE IF i = c THEN cl[1] ELSE o[i]] :
      tl \in TagsLines, cl \in CategoryLines, o \in [(1..n) \ {t, c} -> OtherLines] }

\* Every description of up to MaxLines lines with at most one Tags line and at
\* most one Category line, in either order, anywhere among the other lines.
InitMeta ==
  /\ call = "none"
  /\ \E n \in 0..MaxLines :
       \E t \in 0..n :
         \E c \in {k \in 0..n : k = 0 \/ k # t} :
           args \in {[description |-> Join(ls, "\n")] : ls \in LinesWith(n, t, c)}
  /\ ret = Pending

GetMetadata ==
  /\ call = "none"
  /\ call' = "get_metadata"
  /\ ret' = get_metadata(args.description)
  /\ UNCHANGED args

NextMeta == GetMetadata

SpecMeta == InitMeta /\ [][NextMeta]_vars

\* the lines of a description, as written
LinesOf(description) == Split(description, "\n")

\* the elements of seq at the indices in I, in their order
RECURSIVE Pick(_, _)
Pick(seq, I) ==
  IF I = {} THEN <<>>
  ELSE <<seq[Min(I)]>> \o Pick(seq, I \ {Min(I)})

\* C5: a description with exactly one `Tags:` line and one `Category:` line
\* (any case of the key, any surrounding whitespace, either order, any
\* position among other lines) yields exactly the trimmed tags, the trimmed
\* category, and all other lines in their order as the description.
C5_MetadataExtracted ==
  call = "get_metadata" =>
    LET ls == LinesOf(args.description)
        T  == {i \in 1..Len(ls) : \E t \in TagsLines : t[1] = ls[i]}
        C  == {i \in 1..Len(ls) : \E c \in CategoryLines : c[1] = ls[i]}
        O  == (1..Len(ls)) \ (T \cup C)
    IN  (Cardinality(T) = 1 /\ Cardinality(C) = 1 /\ \A i \in O : ls[i] \in OtherLines) =>
          /\ \E t \in TagsLines : t[1] = ls[Min(T)] /\ ret.tags = t[2]
          /\ \E c \in CategoryLines : c[1] = ls[Min(C)] /\ ret.category = c[2]
          /\ ret.description = Join(Pick(ls, O), "\n")

\* C5's case: four lines, a category line in capitals between two lines of
\* text and a tags line last; both lines of text are kept, in their order.
C5_Witness ==
  /\ call = "get_metadata"
  /\ args.description
       = "Does things.\n  CATEGORY:Foo  \n  a tag: b, c\n  tAGS:virtual ,x  "
  /\ ret = [description |-> "Does things.\n  a tag: b, c",
            tags |-> <<"virtual", "x">>, category |-> "Foo"]


(***************************************************************************)
(* The raw records given to the model builder.                             *)
(***************************************************************************)
\* d without key k
Without(d, k) == [x \in (DOMAIN d) \ {k} |-> d[x]]

ArgumentEntry == [name |-> "value", type |-> "int"]

\* An entry of the methods list (is_static FALSE) or of the static_functions
\* list (is_static TRUE); the signature of a static function says so.
MethodEntry(name, arguments, description, is_static) ==
  [name |-> name,
   signature |-> (IF is_static THEN "static " ELSE "") \o "func " \o name
                 \o (IF arguments = <<>> THEN "()" ELSE "(value: int)") \o " -> null",
   description |-> description,
   arguments |-> arguments,
   return_type |-> "null",
   rpc_mode |-> 0]

\* a built-in callback, the constructor, a private name, a public name
MethodNames == {"_ready", "_init", "_foo", "bar"}

MethodDescriptions ==
  {"", "Does things.\nTags: x, virtual", "TAGS:virtual"}

MethodEntries(is_static) ==
  {MethodEntry(n, a, d, is_static) : n \in MethodNames, a \in {<<>>, <<ArgumentEntry>>},
                                     d \in MethodDescriptions}

\* an entry for every built-in callback name
BuiltinEntries(is_static) ==
  {MethodEntry(BUILTIN_VIRTUAL_CALLBACKS[i], a, d, is_static) :
     i \in 1..Len(BUILTIN_VIRTUAL_CALLBACKS), a \in {<<>>, <<ArgumentEntry>>},
     d \in MethodDescriptions}

MemberEntry(name) ==
  [name |-> name, signature |-> "var " \o name \o ": int = 0", description |-> "",
   data_type |-> "int", default_value |-> "0", export |-> FALSE,
   setter |-> "", getter |-> ""]

SignalEntry ==
  [name |-> "done", signature |-> "signal done()", description |-> "", arguments |-> <<>>]

ConstantEntry(data_type) ==
  [name |-> "Kind", signature |-> "const Kind: " \o data_type, description |-> "",
   data_type |-> data_type, value |-> [A |-> 0]]

RawClass(methods, static_functions, members, constants) ==
  [name |-> "Foo",
   extends_class |-> <<"Node">>,
   description |-> "Does things.\nTags: util\nCategory: Tools",
   path |-> "foo.gd",
   methods |-> methods,
   static_functions |-> static_functions,
   members |-> members,
   signals |-> <<SignalEntry>>,
   constants |-> constants]

TopLevelKeys ==
  {"name", "extends_class", "description", "path", "methods", "static_functions",
   "members", "signals", "constants"}
MethodKeys == {"name", "signature", "description", "arguments", "return_type"}
MemberKeys ==
  {"name", "signature", "description", "data_type", "default_value", "export",
   "setter", "getter"}
SignalKeys == {"name", "signature", "description", "arguments"}
ConstantKeys == {"name", "signature", "description", "data_type", "value"}

(***************************************************************************)
(* SpecBuild: GDScriptClass.from_dict applied to complete records whose    *)
(* methods and static_functions lists hold up to MaxEntries entries.       *)
(***************************************************************************)
\* the (methods, static_functions) pairs of at most MaxEntries entries in all
\* and the lists of one entry named as a built-in callback
EntryLists ==
  UNION {UNION {[1..k -> MethodEntries(FALSE)] \X [1..j -> MethodEntries(TRUE)] :
                  j \in 0..(MaxEntries - k)} : k \in 0..MaxEntries}
  \cup {<< <<e>>, <<>> >> : e \in BuiltinEntries(FALSE)}
  \cup {<< <<>>, <<e>> >> : e \in BuiltinEntries(TRUE)}

BuildInputs ==
  {RawClass(l[1], l[2], <<MemberEntry("_speed"), MemberEntry("speed")>>,
            <<ConstantEntry("Dictionary"), ConstantEntry("int")>>) : l \in EntryLists}

InitBuild ==
  /\ call = "none"
  /\ args \in {[data |-> d] : d \in BuildInputs}
  /\ ret = Pending

FromDict ==
  /\ call = "none"
  /\ call' = "from_dict"
  /\ ret' = GDScriptClass_from_dict(args.data)
  /\ UNCHANGED args

NextBuild == FromDict

SpecBuild == InitBuild /\ [][NextBuild]_vars

\* from_dict returned a class
ClassBuilt == call = "from_dict" /\ ~Raised(ret)

\* the list a built function's entry was in
OriginOf(f) ==
  IF StartsWith(f.signature, "static ") THEN "static_functions" ELSE "methods"

\* the tags an entry's description declares
TagsOf(entry) == get_metadata(entry.description).tags

\* f was built from an entry like entry of the list named origin
BuiltFrom(f, entry, origin) ==
  /\ f.name = entry.name
  /\ OriginOf(f) = origin
  /\ Len(f.arguments) = Len(entry.arguments)
  /\ f.tags = TagsOf(entry)

Present(entry, origin) ==
  \E i \in 1..Len(ret.value.functions) : BuiltFrom(ret.value.functions[i], entry, origin)

PresentAs(entry, origin, kind) ==
  \E i \in 1..Len(ret.value.functions) :
    BuiltFrom(ret.value.functions[i], entry, origin) /\ ret.value.functions[i].kind = kind

\* C1: in both lists an entry named `_init` with no arguments is dropped and
\* one named `_init` with arguments is retained, whatever its tags.
C1_ConstructorWithArgumentsRetained ==
  ClassBuilt =>
    \A origin \in {"methods", "static_functions"} :
      \A i \in 1..Len(args.data[origin]) :
        LET entry == args.data[origin][i]
        IN  entry.name = TYPE_CONSTRUCTOR =>
              IF entry.arguments = <<>> THEN ~Present(entry, origin)
              ELSE Present(entry, origin)

\* C2 as claimed: a method of the methods list whose name starts with `_` is
\* absent without the tag `virtual` and present with kind VIRTUAL with it.
C2_UnderscoreVirtualAlwaysKept ==
  ClassBuilt =>
    \A i \in 1..Len(args.data.methods) :
      LET entry == args.data.methods[i]
      IN  StartsWith(entry.name, "_") =>
            IF InList("virtual", TagsOf(entry)) THEN PresentAs(entry, "methods", "VIRTUAL")
            ELSE ~Present(entry, "methods")

\* C2 as amended: a method of the methods list whose name starts with `_` is
\* absent without the tag `virtual`; with it, it is present with kind VIRTUAL
\* unless its name is a built-in callback or it is `_init` without arguments,
\* and then it is absent.
C2_UnderscoreVirtualKept ==
  ClassBuilt =>
    \A i \in 1..Len(args.data.methods) :
      LET entry == args.data.methods[i]
          excepted == \/ InList(entry.name, BUILTIN_VIRTUAL_CALLBACKS)
                      \/ entry.name = TYPE_CONSTRUCTOR /\ entry.arguments = <<>>
      IN  StartsWith(entry.name, "_") =>
            IF InList("virtual", TagsOf(entry)) /\ ~excepted
              THEN PresentAs(entry, "methods", "VIRTUAL")
              ELSE ~Present(entry, "methods")

\* C2's case: `_foo` tagged virtual after `_foo` untagged; only the second,
\* tagged entry is kept.
C2_Witness ==
  /\ ClassBuilt
  /\ Len(args.data.methods) = 2
  /\ args.data.methods[1].name = "_foo"
  /\ ~InList("virtual", TagsOf(args.data.methods[1]))
  /\ args.data.methods[2].name = "_foo"
  /\ InList("virtual", TagsOf(args.data.methods[2]))
  /\ Len(ret.value.functions) = 1
  /\ ret.value.functions[1].kind = "VIRTUAL"

\* C7: no function of a built class is named as a built-in callback, whatever
\* list, tags and arguments its entry had.
C7_NoBuiltinCallback ==
  ClassBuilt =>
    \A i \in 1..Len(ret.value.functions) :
      ~InList(ret.value.functions[i].name, BUILTIN_VIRTUAL_CALLBACKS)

\* C7's case: one entry, named as the last built-in callback, tagged virtual and
\* with an argument; the class is built without it.
C7_Witness ==
  /\ ClassBuilt
  /\ Len(args.data.methods) = 1
  /\ args.data.methods[1].name = "_make_custom_tooltip"
  /\ InList("virtual", TagsOf(args.data.methods[1]))
  /\ args.data.methods[1].arguments # <<>>
  /\ ret.value.functions = <<>>

\* C8: the kind of every function follows static > virtual > method: STATIC
\* iff its entry was in static_functions, VIRTUAL iff it was in methods and
\* tagged `virtual`, METHOD otherwise.
C8_KindPriority ==
  ClassBuilt =>
    \A i \in 1..Len(ret.value.functions) :
      LET f == ret.value.functions[i]
      IN  f.kind = IF OriginOf(f) = "static_functions" THEN "STATIC"
                   ELSE IF InList("virtual", f.tags) THEN "VIRTUAL"
                   ELSE "METHOD"

\* C8's case: a static function tagged virtual after a virtual method.
C8_Witness ==
  /\ ClassBuilt
  /\ Len(args.data.methods) = 1
  /\ Len(args.data.static_functions) = 1
  /\ InList("virtual", TagsOf(args.data.static_functions[1]))
  /\ Len(ret.value.functions) = 2
  /\ ret.value.functions[1].kind = "VIRTUAL"
  /\ ret.value.functions[2].kind = "STATIC"
  /\ InList("virtual", ret.value.functions[2].tags)

(***************************************************************************)
(* SpecMissing: GDScriptClass.from_dict applied to records that lack at    *)
(* most one key, at the top level or in one entry.                         *)
(***************************************************************************)
MissingBases ==
  {RawClass(<<m>>, <<s>>, <<MemberEntry(mn)>>, <<ConstantEntry(t)>>) :
     m \in MethodEntries(FALSE),
     s \in {MethodEntry("make", <<ArgumentEntry>>, "", TRUE),
            MethodEntry("_helper", <<>>, "", TRUE)},
     mn \in {"_speed", "speed"},
     t \in {"Dictionary", "int"}}

\* d, and d with exactly one key removed
OneKeyMissing(d) ==
  {d}
  \cup {Without(d, k) : k \in TopLevelKeys}
  \cup {[d EXCEPT !.methods[1] = Without(@, k)] : k \in MethodKeys}
  \cup {[d EXCEPT !.static_functions[1] = Without(@, k)] : k \in MethodKeys}
  \cup {[d EXCEPT !.members[1] = Without(@, k)] : k \in MemberKeys}
  \cup {[d EXCEPT !.signals[1] = Without(@, k)] : k \in SignalKeys}
  \cup {[d EXCEPT !.constants[1] = Without(@, k)] : k \in ConstantKeys}

InitMissing ==
  /\ call = "none"
  /\ args \in {[data |-> d] : d \in UNION {OneKeyMissing(b) : b \in MissingBases}}
  /\ ret = Pending

SpecMissing == InitMissing /\ [][NextBuild]_vars

\* the entries of the list under key, none when the record lacks the key
EntriesOf(data, key) == IF key \in DOMAIN data THEN data[key] ELSE <<>>

\* the filter drops the entry for its name: `_`, and not a virtual method
DroppedAsPrivate(entry, is_static) ==
  StartsWith(entry.name, "_") /\ (is_static \/ ~InList("virtual", TagsOf(entry)))

\* from_dict reads key k, which the method entry lacks
MethodKeyRead(entry, k, is_static) ==
  IF k = "name" THEN TRUE
  ELSE IF InList(entry.name, BUILTIN_VIRTUAL_CALLBACKS) THEN FALSE
  ELSE IF k = "arguments"
    THEN entry.name = TYPE_CONSTRUCTOR \/ ~DroppedAsPrivate(entry, is_static)
  ELSE IF entry.name = TYPE_CONSTRUCTOR /\ entry.arguments = <<>> THEN FALSE
  ELSE IF k = "description" THEN TRUE
  ELSE ~DroppedAsPrivate(entry, is_static)

MemberKeyRead(entry, k) == k = "name" \/ ~StartsWith(entry.name, "_")

ConstantKeyRead(entry, k) == k = "data_type" \/ entry.data_type = "Dictionary"

\* the keys the record lacks, each with whether from_dict reads it
MissingKeys(data) ==
  {<<k, TRUE>> : k \in TopLevelKeys \ DOMAIN data}
  \cup UNION {{<<k, MethodKeyRead(EntriesOf(data, "methods")[i], k, FALSE)>> :
                 k \in MethodKeys \ DOMAIN EntriesOf(data, "methods")[i]} :
              i \in 1..Len(EntriesOf(data, "methods"))}
  \cup UNION {{<<k, MethodKeyRead(EntriesOf(data, "static_functions")[i], k, TRUE)>> :
                 k \in MethodKeys \ DOMAIN EntriesOf(data, "static_functions")[i]} :
              i \in 1..Len(EntriesOf(data, "static_functions"))}
  \cup UNION {{<<k, MemberKeyRead(EntriesOf(data, "members")[i], k)>> :
                 k \in MemberKeys \ DOMAIN EntriesOf(data, "members")[i]} :
              i \in 1..Len(EntriesOf(data, "members"))}
  \cup UNION {{<<k, TRUE>> : k \in SignalKeys \ DOMAIN EntriesOf(data, "signals")[i]} :
              i \in 1..Len(EntriesOf(data, "signals"))}
  \cup UNION {{<<k, ConstantKeyRead(EntriesOf(data, "constants")[i], k)>> :
                 k \in ConstantKeys \ DOMAIN EntriesOf(data, "constants")[i]} :
              i \in 1..Len(EntriesOf(data, "constants"))}

\* C4 as claimed: a record that lacks exactly one expected key, at the top
\* level or in any entry, dropped by the filters or not, makes from_dict
\* fail with a KeyError naming that key.
C4_EveryMissingKeyRaises ==
  call = "from_dict" =>
    \A m \in MissingKeys(args.data) : ret = KeyError(m[1])

\* C4 as amended: a record that lacks exactly one expected key makes from_dict
\* fail with a KeyError naming that key exactly when the builder reads the key:
\* every top-level key and signal field, the name of a method or member, the
\* data_type of a constant, the arguments of a `_init` that is no built-in
\* callback, the description of a method that is neither a built-in callback
\* nor `_init` without arguments, and the other fields of the methods, members
\* and constants that the filters keep.  A key missing from an entry that is
\* dropped before the key is read raises nothing and the class is built.
C4_MissingKeyRaisesWhenRead ==
  call = "from_dict" =>
    \A m \in MissingKeys(args.data) :
      IF m[2] THEN ret = KeyError(m[1]) ELSE ~Raised(ret)

\* C4's case: the method `bar`, which the filters keep, lacks return_type.
C4_Witness ==
  /\ call = "from_dict"
  /\ ret = KeyError("return_type")
  /\ "return_type" \notin DOMAIN args.data.methods[1]
  /\ args.data.methods[1].name = "bar"


(***************************************************************************)
(* SpecGroup: get_grouped_by_category applied to collections of up to      *)
(* MaxClasses classes.                                                     *)
(***************************************************************************)
ClassOf(name, category) ==
  [name |-> name, extends |-> <<"Node">>, description |-> "", path |-> name \o ".gd",
   functions |-> <<>>, members |-> <<>>, signals |-> <<>>, enums |-> <<>>,
   tags |-> <<>>, category |-> category]

GroupedClasses ==
  {ClassOf("Foo", "Tools"), ClassOf("Bar", "Core"), ClassOf("Baz", "Tools"), ClassOf("Qux", "")}

InitGroup ==
  /\ call = "none"
  /\ args \in {[self |-> c] : c \in SeqsUpTo(GroupedClasses, MaxClasses)}
  /\ ret = Pending

GetGroupedByCategory ==
  /\ call = "none"
  /\ call' = "get_grouped_by_category"
  /\ ret' = get_grouped_by_category(args.self)
  /\ UNCHANGED args

NextGroup == GetGroupedByCategory

SpecGroup == InitGroup /\ [][NextGroup]_vars

\* the characters of the categories, in code point order
CodePoints == " ABCDEFGHIJKLMNOPQRSTUVWXYZabcdefghijklmnopqrstuvwxyz"

\* a < b as Python compares strings
RECURSIVE StrLess(_, _)
StrLess(a, b) ==
  IF b = "" THEN FALSE
  ELSE IF a = "" THEN TRUE
  ELSE IF Char(a, 1) = Char(b, 1) THEN StrLess(From(a, 1), From(b, 1))
  ELSE Find(CodePoints, Char(a, 1)) < Find(CodePoints, Char(b, 1))

RECURSIVE Flatten(_)
Flatten(lists) == IF lists = <<>> THEN <<>> ELSE Head(lists) \o Flatten(Tail(lists))

Count(x, seq) == Cardinality({i \in 1..Len(seq) : seq[i] = x})

\* C6: get_grouped_by_category returns groups that partition the collection:
\* every class is in exactly one group, a group's classes share a category, no
\* two groups share one, the groups ascend by category, and an empty
\* collection gives an empty list.
C6_GroupsPartitionByCategory ==
  call = "get_grouped_by_category" =>
    /\ ~Raised(ret)
    /\ LET groups == ret.value
           all == Flatten(groups)
       IN  /\ Len(all) = Len(args.self)
           /\ \A i \in 1..Len(args.self) : Count(args.self[i], all) = Count(args.self[i], args.self)
           /\ \A g \in 1..Len(groups) :
                /\ groups[g] # <<>>
                /\ \A i \in 1..Len(groups[g]) : groups[g][i].category = groups[g][1].category
           /\ \A g \in 1..Len(groups) : \A h \in 1..Len(groups) :
                g < h => StrLess(groups[g][1].category, groups[h][1].category)

(***************************************************************************)
(* SpecRender: as_markdown, convert_to_markdown and write_members applied  *)
(* to built classes of up to MaxMembers members and MaxFunctions functions,*)
(* in the two dialects and with a format value that is neither.            *)
(***************************************************************************)
RenderedMember(setter, getter) ==
  [signature |-> "var speed: int = 0", name |-> "speed", description |-> "The speed.",
   type |-> "int", default_value |-> "0", is_exported |-> FALSE,
   setter |-> setter, getter |-> getter, tags |-> <<>>]

RenderedMembers ==
  {RenderedMember(s, g) : s \in {"", "set_speed"}, g \in {"", "get_speed"}}

RenderedFunction(name, kind, signature, description) ==
  [signature |-> signature, kind |-> kind, name |-> name, description |-> description,
   return_type |-> "void", arguments |-> <<>>, rpc_mode |-> 0,
   tags |-> IF kind = "VIRTUAL" THEN <<"virtual">> ELSE <<>>]

RenderedFunctions ==
  {RenderedFunction("bar", "METHOD", "func bar() -> void", ""),
   RenderedFunction("_on_hit", "VIRTUAL", "func _on_hit() -> void", "Called on a hit."),
   RenderedFunction("make", "STATIC", "static func make() -> void", "")}

RenderedSignal ==
  [signature |-> "signal done()", name |-> "done", description |-> "", arguments |-> <<>>]

RenderedEnumeration ==
  [signature |-> "const Kind: Dictionary", name |-> "Kind", description |-> "Kinds.",
   values |-> [A |-> 0]]

RenderedClasses ==
  {[name |-> "Foo", extends |-> <<"Node">>, description |-> "Does things.",
    path |-> "foo.gd", functions |-> fs, members |-> ms, signals |-> ss, enums |-> es,
    tags |-> ts, category |-> "Tools"] :
     fs \in SeqsUpTo(RenderedFunctions, MaxFunctions),
     ms \in SeqsUpTo(RenderedMembers, MaxMembers),
     ss \in {<<>>, <<RenderedSignal>>},
     es \in {<<>>, <<RenderedEnumeration>>},
     ts \in {<<>>, <<"abstract">>}}

\* a value of arguments.format that is no member of OutputFormats
UnrecognisedFormat == "JSON"

InitRender ==
  /\ call = "none"
  /\ args \in {[gdscript |-> c, format |-> f] :
                 c \in RenderedClasses, f \in OutputFormats \cup {UnrecognisedFormat}}
  /\ ret = Pending

AsMarkdown ==
  /\ call = "none"
  /\ call' = "as_markdown"
  /\ ret' = as_markdown(args.gdscript, args.format)
  /\ UNCHANGED args

\* convert_to_markdown on the collection of the one class
ConvertToMarkdown ==
  /\ call = "none"
  /\ call' = "convert_to_markdown"
  /\ ret' = convert_to_markdown(<<args.gdscript>>, args.format)
  /\ UNCHANGED args

WriteMembers ==
  /\ call = "none"
  /\ call' = "write_members"
  /\ ret' = write_members(args.gdscript.members, args.format)
  /\ UNCHANGED args

NextRender == AsMarkdown \/ ConvertToMarkdown \/ WriteMembers

SpecRender == InitRender /\ [][NextRender]_vars

\* C3: rendering with a format that is neither dialect is an error: nothing
\* is returned, and no document in the style of a recognised dialect.
C3_UnrecognisedDialectRaises ==
  (call \in {"as_markdown", "convert_to_markdown"} /\ args.format \notin OutputFormats)
    => Raised(ret)

\* the heading line of a section
SectionHeading(title) == make_heading(title, 2)[1]

HasLine(lines, line) == \E i \in 1..Len(lines) : lines[i] = line

\* the section titled title is in lines with exactly this content, and ends
\* the document or is followed by the heading of the section titled next
HasSection(lines, title, content, next) ==
  \E i \in 1..Len(lines) :
    LET last == i + Len(make_heading(title, 2)) + Len(content) - 1
    IN  /\ last <= Len(lines)
        /\ SubSeq(lines, i, last) = make_heading(title, 2) \o content
        /\ last = Len(lines) \/ lines[last + 1] = SectionHeading(next)

\* C9: a class without members, signals and enumerations is rendered without
\* a Properties, Signals or Enumerations heading and with a Methods section
\* holding the table header and exactly one row per function.
C9_EmptySectionsOmitted ==
  (/\ call = "as_markdown"
   /\ args.gdscript.members = <<>>
   /\ args.gdscript.signals = <<>>
   /\ args.gdscript.enums = <<>>) =>
    /\ ~Raised(ret)
    /\ ~HasLine(ret.value.content, SectionHeading("Properties"))
    /\ ~HasLine(ret.value.content, SectionHeading("Signals"))
    /\ ~HasLine(ret.value.content, SectionHeading("Enumerations"))
    /\ HasSection(ret.value.content, "Methods",
                  make_table_header(<<"Type", "Name">>)
                  \o FunctionRows(args.gdscript.functions),
                  "Method Descriptions")

\* C9's cases: no functions either, so the Methods table is its header alone
\* and ends the document.
C9_Witness ==
  /\ call = "as_markdown"
  /\ args.format = "MARDKOWN"
  /\ args.gdscript.members = <<>>
  /\ args.gdscript.signals = <<>>
  /\ args.gdscript.enums = <<>>
  /\ args.gdscript.functions = <<>>
  /\ Len(ret.value.content) >= 4
  /\ SubSeq(ret.value.content, Len(ret.value.content) - 3, Len(ret.value.content))
       = <<"## Methods", "", "| Type | Name |", "| --- | --- |">>

\* the Property Descriptions entry of a member as the claim has it: the
\* heading, the signature's code, the setter/getter table when either is
\* named, the description
MemberEntryWithTable(member, output_format) ==
  make_heading(member.name, 3)
  \o CodeLines(member.signature, output_format)
  \o (IF member.setter # "" \/ member.getter # ""
        THEN (IF member.setter # "" THEN <<make_table_row(<<"Setter", member.setter>>)>>
              ELSE <<>>)
             \o (IF member.getter # "" THEN <<make_table_row(<<"Getter", member.getter>>)>>
                 ELSE <<>>)
             \o <<"">>
        ELSE <<>>)
  \o <<member.description>>

RECURSIVE MemberEntriesWithTable(_, _)
MemberEntriesWithTable(members, output_format) ==
  IF members = <<>> THEN <<>>
  ELSE MemberEntryWithTable(Head(members), output_format)
       \o MemberEntriesWithTable(Tail(members), output_format)

\* C10: write_members gives every member's entry the setter/getter table iff
\* the member names a setter or a getter, with a row for each one named,
\* after the signature's code block and before the description.
C10_SetterGetterTable ==
  call = "write_members" =>
    ret = MemberEntriesWithTable(args.gdscript.members, args.format)

====
